---- MODULE Spec2Model ----
(***************************************************************************)
(* Model of the polymarket copy-trading agent.                             *)
(*                                                                         *)
(*   - OnChainMonitor (copyTrading/onchainMonitor.ts): the block-log       *)
(*     scanner: startMonitoring / stopMonitoring, the backfill             *)
(*     (processHistoricalBlocks), the live tail (processNewBlocks), and    *)
(*     processBlockRange / parseTradeEvent.                                *)
(*   - CopyTradingEngine (copyTrading/copyTradingEngine.ts): processTrade, *)
(*     shouldCopyTrade, calculateCopyOrder, executeCopyOrder, the position *)
(*     and daily-stats bookkeeping, with OrderService.calculateOrderParams.*)
(*                                                                         *)
(* Every `await` of the source is a point where another handler may run;   *)
(* an action of the model is the code between two such points.             *)
(***************************************************************************)
EXTENDS Integers, Sequences, FiniteSets, TLC

(***************************************************************************)
(* Bounds of the model.                                                    *)
(***************************************************************************)
\* highest block height the chain reaches
MaxHead == 3
\* number of startMonitoring() calls that get past the isMonitoring guard
MaxStarts == 1
\* number of trades handed to the engine one after the other
MaxTrades == 2
\* number of trades handed to the engine without waiting for each other
MaxInFlight == 2
\* last calendar day the clock reaches (the first day is 1)
MaxDay == 2
MaxClock == 3
MaxLookups == 2
MaxSerialLookups == 3

(***************************************************************************)
(* Program constants, scaled.                                              *)
(***************************************************************************)
\* `latestBlock - 1000` in startMonitoring; the model counts in units of
\* 500 blocks so that the lookback spans two units
Lookback == 2
\* `batchSize = 1000` in processHistoricalBlocks, in the same unit
BatchSize == 2
\* chain height when the program is constructed
InitHead == 1
\* the deliveries of a log are counted up to this number ("twice or more")
MaxCount == 2

\* the smaller of two integers (Math.min)
Min(a, b) == IF a <= b THEN a ELSE b
\* the larger of two integers (Math.max)
Max(a, b) == IF a >= b THEN a ELSE b

RECURSIVE SortedSeq(_)
\* the elements of a set of integers in increasing order: getLogs returns
\* logs in chain order
SortedSeq(S) ==
  IF S = {} THEN <<>>
  ELSE LET m == CHOOSE x \in S : \A y \in S : x <= y
       IN <<m>> \o SortedSeq(S \ {m})

(***************************************************************************)
(* The chain.  Wallets w1 and w2 are watched, x is a stranger.  A log is   *)
(* identified by (tx, logIndex); `id` orders the logs as the chain does.   *)
(* For an OrdersMatched log `maker` holds its one indexed party,           *)
(* takerOrderMaker.                                                        *)
(***************************************************************************)
Wallets == {"w1", "w2"}

\* POLYMARKET_CONTRACTS.CTF_EXCHANGE and CTF_EXCHANGE_OLD, the default
\* subscription of subscribeToPolymarketContracts
DefaultContracts == <<"CTF_EXCHANGE", "CTF_EXCHANGE_OLD">>

ChainLogs ==
  { [id |-> 1, tx |-> "ta", logIndex |-> 0, block |-> 1, contract |-> "CTF_EXCHANGE",
     kind |-> "OrderFilled", maker |-> "w1", taker |-> "x",
     makerAssetId |-> "A", takerAssetId |-> "B"],
    [id |-> 2, tx |-> "tb", logIndex |-> 0, block |-> 2, contract |-> "CTF_EXCHANGE",
     kind |-> "OrderFilled", maker |-> "w1", taker |-> "w2",
     makerAssetId |-> "A", takerAssetId |-> "B"],
    [id |-> 3, tx |-> "tc", logIndex |-> 0, block |-> 3, contract |-> "CTF_EXCHANGE_OLD",
     kind |-> "OrderFilled", maker |-> "x", taker |-> "w2",
     makerAssetId |-> "A", takerAssetId |-> "B"],
    [id |-> 4, tx |-> "td", logIndex |-> 0, block |-> 4, contract |-> "CTF_EXCHANGE",
     kind |-> "OrdersMatched", maker |-> "w1", taker |-> "x",
     makerAssetId |-> "A", takerAssetId |-> "B"] }

LogIds == {l.id : l \in ChainLogs}
LogOf(i) == CHOOSE l \in ChainLogs : l.id = i

(***************************************************************************)
(* State of the OnChainMonitor.                                            *)
(***************************************************************************)
VARIABLES
  head,               \* chain height (provider.getBlockNumber())
  trackedWallets,     \* OnChainMonitor.trackedWallets
  monitoringContracts,\* OnChainMonitor.monitoringContracts
  isMonitoring,       \* OnChainMonitor.isMonitoring
  listeners,          \* number of 'block' listeners attached to the provider
  lastProcessedBlock, \* OnChainMonitor.lastProcessedBlock, the chain cursor
  starts,             \* startMonitoring() calls suspended at an await
  nStarts,            \* number of startMonitoring() calls that went past the guards
  scans,              \* processBlockRange() calls in flight
  delivered,          \* per log, how often the trade observers were invoked with it
  faults,             \* whether the RPC endpoint may fail calls in this run
  observers,          \* the trade observers in subscription order, each by how it behaves
  received,           \* per trade observer, the logs it was invoked with
  errorCalls          \* number of invocations of the error observers

scannerVars == <<faults, observers, head, trackedWallets, monitoringContracts, isMonitoring,
                 listeners, lastProcessedBlock, starts, nStarts, scans, delivered, received,
                 errorCalls>>

(***************************************************************************)
(* State of the WalletMonitor (copyTrading/walletMonitor.ts), the router   *)
(* in front of the OnChainMonitor.                                         *)
(***************************************************************************)
VARIABLES
  wmMonitoring,  \* WalletMonitor.isMonitoring
  routerStart,   \* the OnChainMonitor.startMonitoring() call the router awaits (0: none)
  wmStopped      \* WalletMonitor.stopMonitoring() has returned since the last start call

routerVars == <<wmMonitoring, routerStart, wmStopped>>

(***************************************************************************)
(* State of the CopyTradingEngine.                                         *)
(***************************************************************************)
VARIABLES
  config,        \* CopyTradingEngine.config
  day,           \* the calendar day of the clock (new Date())
  positions,     \* CopyTradingEngine.positions
  dailyStats,    \* CopyTradingEngine.dailyStats
  reseeds,       \* ensureDailyStats() calls started by updateDailyStats and not awaited
  trades,        \* the processTrade() calls under way, each with its position in the code
  nTrades        \* number of trades handed to the engine so far

engineVars == <<config, day, positions, dailyStats, reseeds, trades, nTrades>>

(***************************************************************************)
(* One call of a function of the program that keeps no state: what it was  *)
(* called with and what it returned.                                       *)
(***************************************************************************)
VARIABLES
  call,          \* the function called and its arguments
  result         \* what the call returned (NoResult while it has not)

fnVars == <<call, result>>

(***************************************************************************)
(* The router's per-wallet configuration and what it forwarded.            *)
(***************************************************************************)
VARIABLES
  wmWallets,     \* WalletMonitor.trackedWallets: per wallet "absent", "enabled", "disabled"
  forwarded      \* per log, how often the router handed its trade to its observers

walletVars == <<wmWallets, forwarded>>

(***************************************************************************)
(* The engine's market metadata cache (getMarketMetadata) and the clock.   *)
(***************************************************************************)
VARIABLES
  now,                      \* Date.now(), in units of half the cache TTL
  marketMetadata,           \* CopyTradingEngine.marketMetadata, per token
  marketMetadataCacheTime,  \* CopyTradingEngine.marketMetadataCacheTime
  lookups,                  \* the getMarketMetadata() calls made, each with its position
  nLookups                  \* number of getMarketMetadata() calls made so far

cacheVars == <<now, marketMetadata, marketMetadataCacheTime, lookups, nLookups>>

(***************************************************************************)
(* The MarketChannel (WebSocket client of the market feed).                *)
(***************************************************************************)
VARIABLES
  ws,                 \* MarketChannel.ws: the id of the socket, 0 for null
  sockets,            \* the WebSockets created and not yet closed, each with its readyState
  nSockets,           \* number of `new WebSocket(url)` so far
  isConnected,        \* MarketChannel.isConnected
  pingInterval,       \* whether MarketChannel.pingInterval is set
  subscribedAssets,   \* MarketChannel.subscribedAssets
  reconnectAttempts,  \* MarketChannel.reconnectAttempts
  reconnectTimers,    \* number of setTimeout callbacks of attemptReconnect still pending
  userCall            \* the last of connect() and disconnect() the user called

chVars == <<ws, sockets, nSockets, isConnected, pingInterval, subscribedAssets,
            reconnectAttempts, reconnectTimers, userCall>>

auxVars == <<fnVars, walletVars, cacheVars, chVars>>

vars == <<scannerVars, routerVars, engineVars, auxVars>>

NoCall == [fn |-> "none"]
NoResult == [fn |-> "none"]

\* no function is called on its own
IdleFn ==
  /\ call = NoCall
  /\ result = NoResult

\* the router after addWallet() for every wallet the scanner tracks
InitWallets ==
  /\ wmWallets = [w \in Wallets |-> "enabled"]
  /\ forwarded = [i \in LogIds |-> 0]

\* no entry in the metadata cache
NoMeta == [via |-> "none"]

\* state of the metadata cache after construction
InitCache ==
  /\ now = 0
  /\ marketMetadata = [t \in {"A", "B"} |-> NoMeta]
  /\ marketMetadataCacheTime = 0
  /\ lookups = {}
  /\ nLookups = 0

\* nothing but the subsystem under study is in use
\* state of a MarketChannel after construction
InitChannel ==
  /\ ws = 0
  /\ sockets = {}
  /\ nSockets = 0
  /\ isConnected = FALSE
  /\ pingInterval = FALSE
  /\ subscribedAssets = {}
  /\ reconnectAttempts = 0
  /\ reconnectTimers = 0
  /\ userCall = "none"

IdleAux == IdleFn /\ InitWallets /\ InitCache /\ InitChannel

\* state of the OnChainMonitor after construction
InitScanner ==
  /\ head = InitHead
  /\ trackedWallets = Wallets
  /\ monitoringContracts = <<>>
  /\ isMonitoring = FALSE
  /\ listeners = 0
  /\ lastProcessedBlock = 0
  /\ starts = {}
  /\ nStarts = 0
  /\ scans = {}
  /\ delivered = [i \in LogIds |-> 0]
  /\ received = [i \in 1..Len(observers) |-> {}]
  /\ errorCalls = 0

\* state of the WalletMonitor after construction
InitRouter ==
  /\ wmMonitoring = FALSE
  /\ routerStart = 0
  /\ wmStopped = FALSE

\* the outcomes an RPC call can have in this run: TRUE is success
Outcomes == IF faults THEN BOOLEAN ELSE {TRUE}

\* provider.getLogs for one role-specific filter: the logs of `contract` of the
\* given kind in [from, to] whose indexed `role` address is a watched wallet
getLogs(contract, kind, role, from, to, wallets) ==
  SortedSeq({ l.id : l \in { m \in ChainLogs :
                 /\ m.contract = contract
                 /\ m.kind = kind
                 /\ m.block >= from /\ m.block <= to
                 /\ (IF role = "maker" THEN m.maker ELSE m.taker) \in wallets } })

\* Array.from(new Map(all.map((e, idx) => [e.transactionHash + idx, e])).values()):
\* a Map keeps one entry per key, at the position of the key's first insertion,
\* holding the value of its last insertion; the key is the transaction hash
\* followed by the index of the element in the concatenated array
UniqueEvents(all) ==
  LET key(i) == <<LogOf(all[i]).tx, i - 1>>
      firsts == { i \in 1..Len(all) : \A j \in 1..(i - 1) : key(j) # key(i) }
      lastOf(i) == CHOOSE j \in 1..Len(all) :
                     /\ key(j) = key(i)
                     /\ \A k \in (j + 1)..Len(all) : key(k) # key(i)
      order == SortedSeq(firsts)
  IN [n \in 1..Len(order) |-> all[lastOf(order[n])]]

\* the events processBlockRange hands to parseTradeEvent for one exchange
\* contract and window: the merged OrderFilled events, then the OrdersMatched
\* events; a failed query contributes the empty list (.catch(() => []))
WindowEvents(contract, from, to, wallets, okMaker, okTaker, okMatched) ==
  LET orderFilledEventsMaker ==
        IF okMaker THEN getLogs(contract, "OrderFilled", "maker", from, to, wallets) ELSE <<>>
      orderFilledEventsTaker ==
        IF okTaker THEN getLogs(contract, "OrderFilled", "taker", from, to, wallets) ELSE <<>>
      ordersMatchedEvents ==
        IF okMatched THEN getLogs(contract, "OrdersMatched", "maker", from, to, wallets) ELSE <<>>
  IN UniqueEvents(orderFilledEventsMaker \o orderFilledEventsTaker) \o ordersMatchedEvents

\* parseTradeEvent, wallet selection: the watched wallet the event is
\* attributed to, or "none" when neither party is watched (the event is dropped)
EventWallet(l, wallets) ==
  IF l.kind = "OrderFilled"
  THEN IF l.maker \in wallets THEN l.maker
       ELSE IF l.taker \in wallets THEN l.taker
       ELSE "none"
  ELSE IF l.maker \in wallets THEN l.maker ELSE "none"

NoTrade == [walletAddress |-> "none"]

\* parseTradeEvent that reads every fill from the taker's leg
DetectedTradeTakerLeg(l, wallets) ==
  LET walletAddress == EventWallet(l, wallets)
  IN IF walletAddress = "none" THEN NoTrade
     ELSE [walletAddress |-> walletAddress, tokenID |-> l.takerAssetId, side |-> "BUY"]

\* parseTradeEvent, the trade it hands to the observers for a log (NoTrade
\* when it returns early): the wallet, the token and the side
DetectedTrade(l, wallets) ==
  LET walletAddress == EventWallet(l, wallets)
      isMaker == walletAddress = l.maker
  IN IF walletAddress = "none" THEN NoTrade
     ELSE IF l.kind = "OrderFilled"
          THEN IF isMaker
               THEN [walletAddress |-> walletAddress, tokenID |-> l.makerAssetId,
                     side |-> "SELL"]
               ELSE [walletAddress |-> walletAddress, tokenID |-> l.takerAssetId,
                     side |-> "BUY"]
          ELSE [walletAddress |-> walletAddress, tokenID |-> l.takerAssetId,
                side |-> "BUY"]

\* a processBlockRange(from, to) call at its first await, the getLogs queries of
\* the first contract; `latest` is the backfill's upper end (0 for the live
\* tail), `owner` the startMonitoring call or the listener the scan runs for,
\* `failed` the contracts (by index) one of whose queries failed so far
NewScan(kind, owner, from, to, latest, wallets) ==
  [kind |-> kind, owner |-> owner, from |-> from, to |-> to, latest |-> latest, ci |-> 1,
   wallets |-> wallets, pc |-> "getLogs", queue |-> <<>>, sent |-> <<>>, failed |-> {}]

\* the startMonitoring() call `id` of the OnChainMonitor settles, resolved
\* (ok) or rejected: WalletMonitor.startMonitoring, when it awaits that call,
\* resumes and sets its own isMonitoring after a resolved call
StartSettles(id, ok) ==
  IF routerStart = id
  THEN /\ routerStart' = 0
       /\ wmMonitoring' = (ok \/ wmMonitoring)
       /\ UNCHANGED wmStopped
  ELSE UNCHANGED routerVars

\* OnChainMonitor.startMonitoring(fromBlock) up to its first await, past its
\* guards; fb = 0 is an omitted fromBlock
startMonitoring(fb) ==
  /\ monitoringContracts' =
       IF Len(monitoringContracts) = 0 THEN DefaultContracts ELSE monitoringContracts
  /\ isMonitoring' = TRUE
  /\ nStarts' = nStarts + 1
  /\ IF fb = 0
     THEN /\ starts' = starts \cup {[id |-> nStarts + 1, pc |-> "getHead", from |-> 0]}
          /\ UNCHANGED <<lastProcessedBlock, listeners>>
     ELSE /\ lastProcessedBlock' = fb
          /\ listeners' = listeners + 1
          /\ starts' = starts \cup {[id |-> nStarts + 1, pc |-> "histHead", from |-> fb]}
  /\ UNCHANGED <<engineVars, auxVars, faults, observers, errorCalls, head, trackedWallets, scans,
                 delivered, received>>

\* startMonitoring(fromBlock) called on the OnChainMonitor itself.  The call
\* throws when no wallet is registered and returns at once when the monitor is
\* already monitoring.
StartMonitoring(fb) ==
  /\ nStarts < MaxStarts
  /\ trackedWallets # {}
  /\ ~isMonitoring
  /\ startMonitoring(fb)
  /\ UNCHANGED routerVars

\* startMonitoring resumes after `await this.provider.getBlockNumber()`: the
\* cursor is set to the lookback block and the block listener is attached; a
\* failing lookup rejects the call
StartGotHead(s, ok) ==
  /\ s \in starts /\ s.pc = "getHead"
  /\ IF ok
     THEN LET fromBlock == Max(0, head - Lookback)
          IN /\ lastProcessedBlock' = fromBlock
             /\ listeners' = listeners + 1
             /\ starts' = (starts \ {s}) \cup {[s EXCEPT !.pc = "histHead", !.from = fromBlock]}
             /\ UNCHANGED routerVars
     ELSE /\ starts' = starts \ {s}
          /\ UNCHANGED <<lastProcessedBlock, listeners>>
          /\ StartSettles(s.id, FALSE)
  /\ UNCHANGED <<engineVars, auxVars, faults, observers, errorCalls, head, trackedWallets,
                 monitoringContracts, isMonitoring, nStarts, scans, delivered, received>>

\* processHistoricalBlocks resumes after its getBlockNumber(): the first
\* window of the backfill is scanned, or the loop is empty
HistGotHead(s, ok) ==
  /\ s \in starts /\ s.pc = "histHead"
  /\ starts' = starts \ {s}
  /\ IF ok /\ s.from <= head
     THEN /\ scans' = scans \cup
               {NewScan("hist", s.id, s.from, Min(s.from + BatchSize - 1, head), head,
                        trackedWallets)}
          /\ UNCHANGED routerVars
     ELSE /\ scans' = scans
          /\ StartSettles(s.id, ok)
  /\ UNCHANGED <<engineVars, auxVars, faults, observers, errorCalls, head, trackedWallets,
                 monitoringContracts, isMonitoring, listeners, lastProcessedBlock, nStarts,
                 delivered, received>>

\* stopMonitoring() called on the OnChainMonitor itself
StopMonitoring ==
  /\ isMonitoring
  /\ isMonitoring' = FALSE
  /\ listeners' = 0
  /\ UNCHANGED <<engineVars, auxVars, routerVars, faults, observers, errorCalls, head, trackedWallets,
                 monitoringContracts, lastProcessedBlock, starts, nStarts, scans, delivered,
                 received>>

\* the chain grows by one block; every attached listener runs processNewBlocks
\* up to its first await, the getLogs of processBlockRange
NewBlock ==
  /\ head < MaxHead
  /\ head' = head + 1
  /\ LET blockNumber == head + 1
         fromBlock == lastProcessedBlock + 1
     IN IF isMonitoring /\ fromBlock <= blockNumber
        THEN scans' = scans \cup
               { NewScan("live", k, fromBlock, blockNumber, 0, trackedWallets) :
                   k \in 1..listeners }
        ELSE scans' = scans
  /\ UNCHANGED <<engineVars, auxVars, routerVars, faults, observers, errorCalls, trackedWallets,
                 monitoringContracts, isMonitoring, listeners, lastProcessedBlock, starts,
                 nStarts, delivered, received>>

\* processBlockRange in which a query that failed for one contract leaves the
\* later contracts of the window without events
GetLogsReturnSticky(s, okMaker, okTaker, okMatched) ==
  /\ s \in scans /\ s.pc = "getLogs"
  /\ s.ci <= Len(monitoringContracts)
  /\ scans' = (scans \ {s}) \cup
       {[s EXCEPT !.pc = "emit",
                  !.queue = IF s.failed = {}
                            THEN WindowEvents(monitoringContracts[s.ci], s.from, s.to,
                                              s.wallets, okMaker, okTaker, okMatched)
                            ELSE <<>>,
                  !.sent = <<>>,
                  !.failed = IF okMaker /\ okTaker /\ okMatched THEN @ ELSE @ \cup {s.ci}]}
  /\ UNCHANGED <<engineVars, auxVars, routerVars, faults, observers, errorCalls, head, trackedWallets,
                 monitoringContracts, isMonitoring, listeners, lastProcessedBlock, starts,
                 nStarts, delivered, received>>

\* processBlockRange resumes after the Promise.all of the three getLogs queries
\* of the current contract; each query may fail on its own, and a failed query
\* counts as an empty result without anybody being told
GetLogsReturn(s, okMaker, okTaker, okMatched) ==
  /\ s \in scans /\ s.pc = "getLogs"
  /\ s.ci <= Len(monitoringContracts)
  /\ scans' = (scans \ {s}) \cup
       {[s EXCEPT !.pc = "emit",
                  !.queue = WindowEvents(monitoringContracts[s.ci], s.from, s.to, s.wallets,
                                         okMaker, okTaker, okMatched),
                  !.sent = <<>>,
                  !.failed = IF okMaker /\ okTaker /\ okMatched THEN @ ELSE @ \cup {s.ci}]}
  /\ UNCHANGED <<engineVars, auxVars, routerVars, faults, observers, errorCalls, head, trackedWallets,
                 monitoringContracts, isMonitoring, listeners, lastProcessedBlock, starts,
                 nStarts, delivered, received>>

\* the position of the first trade observer that throws, 0 when none does
\* the router's handler with every wallet taken for enabled
RouteTradeUnfiltered(e, walletAddress) ==
  [forwarded EXCEPT ![e] = Min(@ + 1, MaxCount)]

\* the handler the router subscribes to the scanner: the trade goes on to the
\* router's trade observers when its wallet is registered and not disabled
RouteTrade(e, walletAddress) ==
  IF wmWallets[walletAddress] = "absent" \/ wmWallets[walletAddress] = "disabled"
  THEN forwarded
  ELSE [forwarded EXCEPT ![e] = Min(@ + 1, MaxCount)]

FirstThrowing(obs) ==
  IF \E i \in 1..Len(obs) : obs[i] = "throws"
  THEN CHOOSE i \in 1..Len(obs) :
         obs[i] = "throws" /\ \A j \in 1..(i - 1) : obs[j] # "throws"
  ELSE 0

\* `this.onTradeCallbacks.forEach((callback) => callback(trade))`: the
\* observers invoked with a trade, in order up to the first one that throws
Invoked(obs) ==
  IF FirstThrowing(obs) = 0 THEN 1..Len(obs) ELSE 1..FirstThrowing(obs)

\* parseTradeEvent for the next event of the window: the event is dropped when
\* no party is watched, otherwise the block's timestamp is fetched and the trade
\* is handed to the trade observers one after the other.  A failing getBlock
\* and a throwing observer reject parseTradeEvent, and with it the whole scan
\* (and the startMonitoring call a backfill scan belongs to).
ParseTradeEvent(s, okBlock) ==
  /\ s \in scans /\ s.pc = "emit" /\ s.queue # <<>>
  /\ LET e == Head(s.queue)
         walletAddress == EventWallet(LogOf(e), trackedWallets)
     IN IF walletAddress = "none"
        THEN /\ okBlock
             /\ scans' = (scans \ {s}) \cup {[s EXCEPT !.queue = Tail(s.queue)]}
             /\ UNCHANGED <<delivered, received, forwarded, routerVars>>
        ELSE IF okBlock
        THEN /\ delivered' = [delivered EXCEPT ![e] = Min(@ + 1, MaxCount)]
             /\ forwarded' = RouteTrade(e, walletAddress)
             /\ received' = [i \in DOMAIN received |->
                               IF i \in Invoked(observers) THEN received[i] \cup {e}
                               ELSE received[i]]
             /\ IF FirstThrowing(observers) = 0
                THEN /\ scans' = (scans \ {s}) \cup
                          {[s EXCEPT !.queue = Tail(s.queue), !.sent = Append(s.sent, e)]}
                     /\ UNCHANGED routerVars
                ELSE /\ scans' = scans \ {s}
                     /\ IF s.kind = "hist" THEN StartSettles(s.owner, FALSE)
                        ELSE UNCHANGED routerVars
        ELSE /\ scans' = scans \ {s}
             /\ UNCHANGED <<delivered, received, forwarded>>
             /\ IF s.kind = "hist" THEN StartSettles(s.owner, FALSE) ELSE UNCHANGED routerVars
  /\ UNCHANGED <<engineVars, fnVars, cacheVars, chVars, wmWallets, faults, observers, errorCalls, head, trackedWallets,
                 monitoringContracts, isMonitoring, listeners, lastProcessedBlock, starts,
                 nStarts>>

\* the events of the current contract are done: processBlockRange goes on to
\* the next contract, or returns.  On return processNewBlocks stores the
\* cursor; processHistoricalBlocks scans its next window, and after the last
\* one startMonitoring resolves.
ScanAdvance(s) ==
  /\ s \in scans /\ s.pc = "emit" /\ s.queue = <<>>
  /\ IF s.ci < Len(monitoringContracts)
     THEN /\ scans' = (scans \ {s}) \cup
               {[s EXCEPT !.ci = s.ci + 1, !.pc = "getLogs", !.sent = <<>>]}
          /\ UNCHANGED <<lastProcessedBlock, routerVars>>
     ELSE IF s.kind = "live"
     THEN /\ scans' = scans \ {s}
          /\ lastProcessedBlock' = s.to
          /\ UNCHANGED routerVars
     ELSE LET block == s.from + BatchSize
          IN /\ IF block <= s.latest
                THEN /\ scans' = (scans \ {s}) \cup
                          {NewScan("hist", s.owner, block,
                                   Min(block + BatchSize - 1, s.latest),
                                   s.latest, trackedWallets)}
                     /\ UNCHANGED routerVars
                ELSE /\ scans' = scans \ {s}
                     /\ StartSettles(s.owner, TRUE)
             /\ UNCHANGED lastProcessedBlock
  /\ UNCHANGED <<engineVars, auxVars, faults, observers, errorCalls, head, trackedWallets,
                 monitoringContracts, isMonitoring, listeners, starts, nStarts, delivered,
                 received>>

\* WalletMonitor.startMonitoring(fromBlock) up to its await of the
\* OnChainMonitor's startMonitoring; when the OnChainMonitor is monitoring
\* already, that call returns at once and the router marks itself monitoring
WalletStartMonitoring(fb) ==
  /\ ~wmMonitoring
  /\ trackedWallets # {}
  /\ wmStopped' = FALSE
  /\ IF isMonitoring
     THEN /\ wmMonitoring' = TRUE
          /\ UNCHANGED <<routerStart, engineVars, auxVars, scannerVars>>
     ELSE /\ nStarts < MaxStarts
          /\ startMonitoring(fb)
          /\ routerStart' = nStarts + 1
          /\ UNCHANGED wmMonitoring

\* WalletMonitor.stopMonitoring(): nothing is done unless the router is marked
\* monitoring, else the OnChainMonitor is stopped
WalletStopMonitoring ==
  /\ wmStopped' = TRUE
  /\ IF wmMonitoring
     THEN /\ wmMonitoring' = FALSE
          /\ isMonitoring' = FALSE
          /\ listeners' = IF isMonitoring THEN 0 ELSE listeners
          /\ UNCHANGED routerStart
     ELSE UNCHANGED <<wmMonitoring, routerStart, isMonitoring, listeners>>
  /\ UNCHANGED <<engineVars, auxVars, faults, observers, errorCalls, head, trackedWallets,
                 monitoringContracts, lastProcessedBlock, starts, nStarts, scans, delivered,
                 received>>

\* what a WalletConfig can say about `enabled`
Enablings == {"enabled", "disabled"}

\* WalletMonitor.addWallet(address, config): the entry is set to
\* {enabled: true, ...config} and the scanner is told to track the wallet
AddWallet(w, en) ==
  /\ wmWallets' = [wmWallets EXCEPT ![w] = en]
  /\ trackedWallets' = trackedWallets \cup {w}
  /\ UNCHANGED <<engineVars, fnVars, cacheVars, chVars, forwarded, routerVars, faults, observers, errorCalls,
                 head, monitoringContracts, isMonitoring, listeners, lastProcessedBlock,
                 starts, nStarts, scans, delivered, received>>

\* WalletMonitor.removeWallet(address): an entry that exists is deleted and
\* the scanner is told to forget the wallet
RemoveWallet(w) ==
  /\ IF wmWallets[w] # "absent"
     THEN /\ wmWallets' = [wmWallets EXCEPT ![w] = "absent"]
          /\ trackedWallets' = trackedWallets \ {w}
     ELSE UNCHANGED <<wmWallets, trackedWallets>>
  /\ UNCHANGED <<engineVars, fnVars, cacheVars, chVars, forwarded, routerVars, faults, observers, errorCalls,
                 head, monitoringContracts, isMonitoring, listeners, lastProcessedBlock,
                 starts, nStarts, scans, delivered, received>>

\* WalletMonitor.loadWalletsFromFile(filePath) on a file that lists
\* fileWallets: the scanner clears its set and tracks the wallets of the file,
\* and the router adds an enabled entry for every one of them it has none for
\* (a file that cannot be read or parsed throws before anything is changed)
LoadWalletsFromFile(fileWallets) ==
  /\ trackedWallets' = fileWallets
  /\ wmWallets' = [w \in Wallets |->
                     IF w \in fileWallets /\ wmWallets[w] = "absent"
                     THEN "enabled" ELSE wmWallets[w]]
  /\ UNCHANGED <<engineVars, fnVars, cacheVars, chVars, forwarded, routerVars, faults, observers, errorCalls,
                 head, monitoringContracts, isMonitoring, listeners, lastProcessedBlock,
                 starts, nStarts, scans, delivered, received>>

\* WalletMonitor.updateWalletConfig(address, {enabled}): the entry of a
\* registered wallet is overwritten; for any other wallet the call throws
UpdateWalletConfig(w, en) ==
  /\ IF wmWallets[w] # "absent"
     THEN wmWallets' = [wmWallets EXCEPT ![w] = en]
     ELSE UNCHANGED wmWallets
  /\ UNCHANGED <<engineVars, fnVars, cacheVars, chVars, forwarded, routerVars, scannerVars>>

(***************************************************************************)
(* The CopyTradingEngine.                                                  *)
(*                                                                         *)
(* Amounts are in normalized units, as integers: prices and USD values in  *)
(* thousandths of a dollar, sizes in whole tokens, so that a value is      *)
(* price * size.  A fraction (scaleFactor, percentageOfBalance) is a pair  *)
(* numerator/denominator; numerator 0 is an unset option.  maxSlippage is  *)
(* in percent.  The inputs below are chosen so that every division of the  *)
(* code is exact on them.                                                  *)
(***************************************************************************)
Tokens == {"A", "B"}
Sides == {"BUY", "SELL"}
Prices == {100, 400}
Sizes == {2, 4}
\* the detected trades handed to processTrade
TradeInputs == [tokenID : Tokens, side : Sides, price : Prices, size : Sizes]
\* what balanceOf can report for the user's wallet; 0 also stands for the
\* missing contract (getUSDCBalance() returning null), which the code treats alike
Balances == {0, 1600}
\* what getBestBidAskSingle can report for a token
MarketPrices == {100, 200}
\* a lookup (balanceOf, getBestBidAskSingle) that rejects instead of answering
LookupThrows == -1
\* what getUSDCBalance() can come back with
BalanceLookups == Balances \cup {LookupThrows}
\* what getCurrentMarketPrice() can come back with
PriceLookups == MarketPrices \cup {LookupThrows}
\* what OrderService.placeOrder can come back with: a response object, a
\* response object carrying an `error` key, or a thrown error
Responses == {"ok", "error", "throw"}

NoFilters == [blacklistMarkets |-> {}, minMarketLiquidity |-> 0]

\* the configurations the engine is run with
Configs ==
  { [copyStrategy |-> st, scaleNum |-> sc[1], scaleDen |-> sc[2],
     pctNum |-> 1, pctDen |-> 2,
     maxPositionSize |-> 1200, maxOrderValue |-> 800, maxDailyLoss |-> 500,
     maxSlippage |-> 2, filters |-> NoFilters] :
       st \in {"exact", "scaled", "percentage", "adaptive"},
       sc \in {<<0, 1>>, <<1, 2>>} }

NoStats == [date |-> 0]
NoPosition == [size |-> 0]
NoOrder == [tokenID |-> "none"]
\* calculateCopyOrder returning null
NullOrder == [tokenID |-> "null"]
\* calculateOrderParams throwing
ThrowOrder == [tokenID |-> "throw"]

\* state of the CopyTradingEngine after construction
InitEngine ==
  /\ config \in Configs
  /\ day = 1
  /\ positions = [t \in Tokens |-> NoPosition]
  /\ dailyStats = NoStats
  /\ reseeds = {}
  /\ trades = {}
  /\ nTrades = 0

\* `this.config.scaleFactor || 1` as a fraction
ScaleOrOne(cfg) == IF cfg.scaleNum = 0 THEN <<1, 1>> ELSE <<cfg.scaleNum, cfg.scaleDen>>

\* ensureDailyStats: the stats are (re)seeded from the fetched balance when
\* there are none or they are of another day
ensureDailyStats(stats, today, balance) ==
  IF stats = NoStats \/ stats.date # today
  THEN [date |-> today, startingBalance |-> balance, currentBalance |-> balance,
        totalLoss |-> 0, totalProfit |-> 0, tradesCount |-> 0]
  ELSE stats

\* wouldExceedDailyLoss, on the stats ensureDailyStats left:
\*   totalLoss + price * size * (scaleFactor || 1) * 0.1 > maxDailyLoss
wouldExceedDailyLoss(trade, cfg, stats) ==
  LET sc == ScaleOrOne(cfg)
  IN /\ stats # NoStats
     /\ 10 * sc[2] * stats.totalLoss + trade.price * trade.size * sc[1]
          > 10 * sc[2] * cfg.maxDailyLoss

\* the order-value gate with the size left out of the product
OrderValueOkPriceOnly(trade, cfg) ==
  LET sc == ScaleOrOne(cfg)
  IN trade.price * sc[1] <= cfg.maxOrderValue * sc[2]

\* the last gate of shouldCopyTrade:
\*   price * size * (scaleFactor || 1) <= maxOrderValue
OrderValueOk(trade, cfg) ==
  LET sc == ScaleOrOne(cfg)
  IN trade.price * trade.size * sc[1] <= cfg.maxOrderValue * sc[2]

\* shouldCopyTrade: marketInfo is the metadata lookup's result ("none" for
\* null, else the market's condition id), liquidity the measured liquidity,
\* stats the daily stats once ensured
shouldCopyTrade(trade, cfg, marketInfo, liquidity, stats) ==
  /\ marketInfo # "none"
  /\ marketInfo \notin cfg.filters.blacklistMarkets
  /\ (cfg.filters.minMarketLiquidity # 0 => liquidity >= cfg.filters.minMarketLiquidity)
  /\ ~wouldExceedDailyLoss(trade, cfg, stats)
  /\ OrderValueOk(trade, cfg)

\* shouldCopyTrade reaches wouldExceedDailyLoss, and with it ensureDailyStats
ReachesDailyLoss(cfg, marketInfo, liquidity) ==
  /\ marketInfo # "none"
  /\ marketInfo \notin cfg.filters.blacklistMarkets
  /\ (cfg.filters.minMarketLiquidity # 0 => liquidity >= cfg.filters.minMarketLiquidity)

\* calculateOrderParams whose scaled strategy leaves the size as it is
calculateOrderParamsUnscaled(trade, cfg, currentBalance, currentMarketPrice) ==
  LET st == cfg.copyStrategy
      bad == \/ st = "scaled" /\ cfg.scaleNum <= 0
             \/ st = "percentage" /\ (cfg.pctNum <= 0 \/ currentBalance <= 0)
             \/ st = "adaptive" /\ (currentMarketPrice <= 0 \/ cfg.maxSlippage = 0)
      priceDiff == IF currentMarketPrice >= trade.price
                   THEN currentMarketPrice - trade.price
                   ELSE trade.price - currentMarketPrice
      \* priceDiff / marketPrice > maxSlippage
      outside == 100 * priceDiff > cfg.maxSlippage * currentMarketPrice
      calculatedPrice ==
        IF st = "adaptive" /\ outside
        THEN IF trade.side = "BUY"
             THEN (currentMarketPrice * (200 + cfg.maxSlippage)) \div 200
             ELSE (currentMarketPrice * (200 - cfg.maxSlippage)) \div 200
        ELSE trade.price
      calculatedSize ==
        CASE st = "scaled" -> trade.size
          [] st = "percentage" ->
               ((currentBalance * cfg.pctNum) \div cfg.pctDen) \div trade.price
          [] OTHER -> trade.size
  IN IF bad THEN ThrowOrder
     ELSE IF calculatedPrice <= 0 \/ calculatedSize <= 0 THEN ThrowOrder
     ELSE [tokenID |-> trade.tokenID, price |-> calculatedPrice,
           size |-> calculatedSize, side |-> trade.side]

\* calculateOrderParams that moves the price by the whole of maxSlippage
calculateOrderParamsFullSlippage(trade, cfg, currentBalance, currentMarketPrice) ==
  LET st == cfg.copyStrategy
      bad == \/ st = "scaled" /\ cfg.scaleNum <= 0
             \/ st = "percentage" /\ (cfg.pctNum <= 0 \/ currentBalance <= 0)
             \/ st = "adaptive" /\ (currentMarketPrice <= 0 \/ cfg.maxSlippage = 0)
      priceDiff == IF currentMarketPrice >= trade.price
                   THEN currentMarketPrice - trade.price
                   ELSE trade.price - currentMarketPrice
      \* priceDiff / marketPrice > maxSlippage
      outside == 100 * priceDiff > cfg.maxSlippage * currentMarketPrice
      calculatedPrice ==
        IF st = "adaptive" /\ outside
        THEN IF trade.side = "BUY"
             THEN (currentMarketPrice * (100 + cfg.maxSlippage)) \div 100
             ELSE (currentMarketPrice * (100 - cfg.maxSlippage)) \div 100
        ELSE trade.price
      calculatedSize ==
        CASE st = "scaled" -> (trade.size * cfg.scaleNum) \div cfg.scaleDen
          [] st = "percentage" ->
               ((currentBalance * cfg.pctNum) \div cfg.pctDen) \div trade.price
          [] OTHER -> trade.size
  IN IF bad THEN ThrowOrder
     ELSE IF calculatedPrice <= 0 \/ calculatedSize <= 0 THEN ThrowOrder
     ELSE [tokenID |-> trade.tokenID, price |-> calculatedPrice,
           size |-> calculatedSize, side |-> trade.side]

\* calculateOrderParams whose final validation tests the price only where the
\* strategy divides by it
calculateOrderParamsPriceUnchecked(trade, cfg, currentBalance, currentMarketPrice) ==
  LET st == cfg.copyStrategy
      bad == \/ st = "scaled" /\ cfg.scaleNum <= 0
             \/ st = "percentage" /\ (cfg.pctNum <= 0 \/ currentBalance <= 0)
             \/ st = "adaptive" /\ (currentMarketPrice <= 0 \/ cfg.maxSlippage = 0)
      priceDiff == IF currentMarketPrice >= trade.price
                   THEN currentMarketPrice - trade.price
                   ELSE trade.price - currentMarketPrice
      \* priceDiff / marketPrice > maxSlippage
      outside == 100 * priceDiff > cfg.maxSlippage * currentMarketPrice
      calculatedPrice ==
        IF st = "adaptive" /\ outside
        THEN IF trade.side = "BUY"
             THEN (currentMarketPrice * (200 + cfg.maxSlippage)) \div 200
             ELSE (currentMarketPrice * (200 - cfg.maxSlippage)) \div 200
        ELSE trade.price
      calculatedSize ==
        CASE st = "scaled" -> (trade.size * cfg.scaleNum) \div cfg.scaleDen
          [] st = "percentage" ->
               ((currentBalance * cfg.pctNum) \div cfg.pctDen) \div trade.price
          [] OTHER -> trade.size
  IN IF bad THEN ThrowOrder
     ELSE IF \/ st = "percentage" /\ calculatedPrice <= 0
             \/ calculatedPrice > 0 /\ calculatedSize <= 0 THEN ThrowOrder
     ELSE [tokenID |-> trade.tokenID, price |-> calculatedPrice,
           size |-> calculatedSize, side |-> trade.side]

\* OrderService.calculateOrderParams: the replica order of a strategy, or
\* ThrowOrder for the errors it raises
calculateOrderParams(trade, cfg, currentBalance, currentMarketPrice) ==
  LET st == cfg.copyStrategy
      bad == \/ st = "scaled" /\ cfg.scaleNum <= 0
             \/ st = "percentage" /\ (cfg.pctNum <= 0 \/ currentBalance <= 0)
             \/ st = "adaptive" /\ (currentMarketPrice <= 0 \/ cfg.maxSlippage = 0)
      priceDiff == IF currentMarketPrice >= trade.price
                   THEN currentMarketPrice - trade.price
                   ELSE trade.price - currentMarketPrice
      \* priceDiff / marketPrice > maxSlippage
      outside == 100 * priceDiff > cfg.maxSlippage * currentMarketPrice
      calculatedPrice ==
        IF st = "adaptive" /\ outside
        THEN IF trade.side = "BUY"
             THEN (currentMarketPrice * (200 + cfg.maxSlippage)) \div 200
             ELSE (currentMarketPrice * (200 - cfg.maxSlippage)) \div 200
        ELSE trade.price
      calculatedSize ==
        CASE st = "scaled" -> (trade.size * cfg.scaleNum) \div cfg.scaleDen
          [] st = "percentage" ->
               ((currentBalance * cfg.pctNum) \div cfg.pctDen) \div trade.price
          [] OTHER -> trade.size
  IN IF bad THEN ThrowOrder
     ELSE IF calculatedPrice <= 0 \/ calculatedSize <= 0 THEN ThrowOrder
     ELSE [tokenID |-> trade.tokenID, price |-> calculatedPrice,
           size |-> calculatedSize, side |-> trade.side]

\* calculateCopyOrder without the comparison against maxPositionSize
calculateCopyOrderUnlimited(trade, cfg, balance, marketPrice, pos) ==
  IF cfg.copyStrategy \in {"percentage", "adaptive"} /\ balance <= 0 THEN NullOrder
  ELSE IF cfg.copyStrategy = "adaptive" /\ marketPrice <= 0 THEN NullOrder
  ELSE calculateOrderParams(trade, cfg, balance, marketPrice)

\* calculateCopyOrder: NullOrder when the balance or the market price a strategy
\* needs is missing, or when the position would exceed maxPositionSize
calculateCopyOrder(trade, cfg, balance, marketPrice, pos) ==
  IF cfg.copyStrategy \in {"percentage", "adaptive"} /\ balance <= 0 THEN NullOrder
  ELSE IF cfg.copyStrategy = "adaptive" /\ marketPrice <= 0 THEN NullOrder
  ELSE LET orderParams == calculateOrderParams(trade, cfg, balance, marketPrice)
       IN IF orderParams = ThrowOrder THEN ThrowOrder
          ELSE LET orderValue == orderParams.price * orderParams.size
                   currentValue == IF pos[trade.tokenID] = NoPosition THEN 0
                                   ELSE pos[trade.tokenID].valueUSD
               IN IF currentValue + orderValue > cfg.maxPositionSize
                  THEN NullOrder ELSE orderParams

\* updatePosition that keeps a position sold down to exactly zero
updatePositionKeepsEmpty(pos, orderParams) ==
  LET tokenID == orderParams.tokenID
      orderValue == orderParams.price * orderParams.size
      currentPosition == pos[tokenID]
  IN IF orderParams.side = "BUY"
     THEN IF currentPosition # NoPosition
          THEN LET totalSize == currentPosition.size + orderParams.size
                   totalValue == currentPosition.valueUSD + orderValue
               IN [pos EXCEPT ![tokenID] =
                     [size |-> totalSize, avgNum |-> totalValue, avgDen |-> totalSize,
                      valueUSD |-> totalValue]]
          ELSE [pos EXCEPT ![tokenID] =
                  [size |-> orderParams.size, avgNum |-> orderParams.price, avgDen |-> 1,
                   valueUSD |-> orderValue]]
     ELSE IF currentPosition # NoPosition
          THEN LET newSize == currentPosition.size - orderParams.size
                   soldValue == orderParams.price * orderParams.size
                   remainingValue == currentPosition.valueUSD - soldValue
               IN IF newSize < 0
                  THEN [pos EXCEPT ![tokenID] = NoPosition]
                  ELSE [pos EXCEPT ![tokenID] =
                          [size |-> newSize, avgNum |-> currentPosition.avgNum,
                           avgDen |-> currentPosition.avgDen, valueUSD |-> remainingValue]]
          ELSE pos

\* updatePosition
updatePosition(pos, orderParams) ==
  LET tokenID == orderParams.tokenID
      orderValue == orderParams.price * orderParams.size
      currentPosition == pos[tokenID]
  IN IF orderParams.side = "BUY"
     THEN IF currentPosition # NoPosition
          THEN LET totalSize == currentPosition.size + orderParams.size
                   totalValue == currentPosition.valueUSD + orderValue
               IN [pos EXCEPT ![tokenID] =
                     [size |-> totalSize, avgNum |-> totalValue, avgDen |-> totalSize,
                      valueUSD |-> totalValue]]
          ELSE [pos EXCEPT ![tokenID] =
                  [size |-> orderParams.size, avgNum |-> orderParams.price, avgDen |-> 1,
                   valueUSD |-> orderValue]]
     ELSE IF currentPosition # NoPosition
          THEN LET newSize == currentPosition.size - orderParams.size
                   soldValue == orderParams.price * orderParams.size
                   remainingValue == currentPosition.valueUSD - soldValue
               IN IF newSize <= 0
                  THEN [pos EXCEPT ![tokenID] = NoPosition]
                  ELSE [pos EXCEPT ![tokenID] =
                          [size |-> newSize, avgNum |-> currentPosition.avgNum,
                           avgDen |-> currentPosition.avgDen, valueUSD |-> remainingValue]]
          ELSE pos

\* updateDailyStats that debits the notional of a SELL as well
updateDailyStatsDebitOnly(stats, orderParams) ==
  IF stats = NoStats THEN stats
  ELSE LET orderValue == orderParams.price * orderParams.size
           balance == stats.currentBalance - orderValue
           pnl == balance - stats.startingBalance
       IN [stats EXCEPT !.tradesCount = @ + 1,
                        !.currentBalance = balance,
                        !.totalLoss = IF pnl < 0 THEN -pnl ELSE @,
                        !.totalProfit = IF pnl < 0 THEN @ ELSE pnl]

\* updateDailyStats, the synchronous part: the stats object at hand is updated
\* (the ensureDailyStats() it starts is not awaited)
updateDailyStats(stats, orderParams) ==
  IF stats = NoStats THEN stats
  ELSE LET orderValue == orderParams.price * orderParams.size
           balance == IF orderParams.side = "BUY"
                      THEN stats.currentBalance - orderValue
                      ELSE stats.currentBalance + orderValue
           pnl == balance - stats.startingBalance
       IN [stats EXCEPT !.tradesCount = @ + 1,
                        !.currentBalance = balance,
                        !.totalLoss = IF pnl < 0 THEN -pnl ELSE @,
                        !.totalProfit = IF pnl < 0 THEN @ ELSE pnl]

\* executeCopyOrder with the bookkeeping done before the response is looked at
executeCopyOrderEager(pos, stats, orderParams, response) ==
  [positions |-> updatePosition(pos, orderParams),
   dailyStats |-> updateDailyStats(stats, orderParams), threw |-> response # "ok"]

\* executeCopyOrder after `await this.orderService.placeOrder(...)`: the
\* positions and stats it leaves for a response, and whether it throws
executeCopyOrder(pos, stats, orderParams, response) ==
  IF response = "ok"
  THEN [positions |-> updatePosition(pos, orderParams),
        dailyStats |-> updateDailyStats(stats, orderParams), threw |-> FALSE]
  ELSE [positions |-> pos, dailyStats |-> stats, threw |-> TRUE]

\* the market (condition id) a token belongs to, as the order book reports it
MarketOf(tokenID) == IF tokenID = "A" THEN "M1" ELSE "M2"
\* what getMarketLiquidity can measure
Liquidities == {0, 1000}

\* the router's trade handler calls processTrade(trade) and does not wait for
\* the calls before it: the call is suspended at shouldCopyTrade's first await
ProcessTrade(tr) ==
  /\ nTrades' = nTrades + 1
  /\ trades' = trades \cup {[id |-> nTrades + 1, trade |-> tr, pc |-> "evaluate",
                             order |-> NoOrder, subs |-> 0]}
  /\ UNCHANGED <<scannerVars, routerVars, auxVars, config, day, positions, dailyStats, reseeds>>

\* trade t with its position in the code, and its order, replaced
Moved(t, pc, order) == (trades \ {t}) \cup {[t EXCEPT !.pc = pc, !.order = order]}

\* shouldCopyTrade with no gate at all
EvaluateUnfiltered(t, marketInfo, liquidity, balance) ==
  /\ t \in trades /\ t.pc = "evaluate"
  /\ trades' = Moved(t, "size", NoOrder)
  /\ UNCHANGED <<scannerVars, routerVars, auxVars, config, day, positions, dailyStats, reseeds, nTrades>>

\* shouldCopyTrade of trade t, with what the metadata lookup, the liquidity
\* measurement and the balance lookup (of ensureDailyStats) come back with; a
\* balance lookup that rejects, when ensureDailyStats makes one, rejects
\* shouldCopyTrade and processTrade
Evaluate(t, marketInfo, liquidity, balance) ==
  /\ t \in trades /\ t.pc = "evaluate"
  /\ IF /\ ReachesDailyLoss(config, marketInfo, liquidity)
        /\ (dailyStats = NoStats \/ dailyStats.date # day)
        /\ balance = LookupThrows
     THEN /\ trades' = Moved(t, "evalThrew", NoOrder)
          /\ UNCHANGED dailyStats
     ELSE LET stats == IF ReachesDailyLoss(config, marketInfo, liquidity)
                       THEN ensureDailyStats(dailyStats, day, balance)
                       ELSE dailyStats
          IN /\ dailyStats' = stats
             /\ trades' = Moved(t, IF shouldCopyTrade(t.trade, config, marketInfo, liquidity,
                                                      stats)
                                   THEN "size" ELSE "filtered", NoOrder)
  /\ UNCHANGED <<scannerVars, routerVars, auxVars, config, day, positions, reseeds, nTrades>>

\* calculateCopyOrder of trade t: null ends the trade, an error of
\* calculateOrderParams rejects processTrade, and so does a balance or price
\* lookup that rejects when the strategy makes one
SizeOrder(t, balance, marketPrice) ==
  /\ t \in trades /\ t.pc = "size"
  /\ IF \/ config.copyStrategy \in {"percentage", "adaptive"} /\ balance = LookupThrows
        \/ config.copyStrategy = "adaptive" /\ balance > 0 /\ marketPrice = LookupThrows
     THEN trades' = Moved(t, "sizeThrew", NoOrder)
     ELSE LET orderParams ==
                calculateCopyOrder(t.trade, config, balance, marketPrice, positions)
          IN trades' = IF orderParams = NullOrder THEN Moved(t, "rejected", NoOrder)
                       ELSE IF orderParams = ThrowOrder THEN Moved(t, "error", NoOrder)
                       ELSE Moved(t, "execute", orderParams)
  /\ UNCHANGED <<scannerVars, routerVars, auxVars, config, day, positions, dailyStats, reseeds, nTrades>>

\* executeCopyOrder of trade t up to `await this.orderService.placeOrder(...)`:
\* without metadata it throws, otherwise the order goes to the executor
\* (placeOrder's own validation of price and size cannot fail here, since
\* calculateOrderParams let only positive values through)
PlaceOrder(t, marketInfo) ==
  /\ t \in trades /\ t.pc = "execute"
  /\ trades' = IF marketInfo = "none" THEN Moved(t, "error", t.order)
               ELSE (trades \ {t}) \cup {[t EXCEPT !.pc = "placing", !.subs = @ + 1]}
  /\ UNCHANGED <<scannerVars, routerVars, auxVars, config, day, positions, dailyStats, reseeds, nTrades>>

\* executeCopyOrder that goes back to submit the order again after a failure
OrderResponseRetrying(t, response) ==
  /\ t \in trades /\ t.pc = "placing"
  /\ LET r == executeCopyOrder(positions, dailyStats, t.order, response)
     IN /\ positions' = r.positions
        /\ dailyStats' = r.dailyStats
        /\ trades' = Moved(t, IF r.threw THEN "execute" ELSE "executed", t.order)
        /\ reseeds' = IF ~r.threw /\ (dailyStats = NoStats \/ dailyStats.date # day)
                      THEN reseeds \cup {day} ELSE reseeds
  /\ UNCHANGED <<scannerVars, routerVars, auxVars, config, day, nTrades>>

\* executeCopyOrder of trade t resumes with the executor's response; a success
\* updates the position and the stats, and updateDailyStats starts an
\* ensureDailyStats() it does not wait for
OrderResponse(t, response) ==
  /\ t \in trades /\ t.pc = "placing"
  /\ LET r == executeCopyOrder(positions, dailyStats, t.order, response)
     IN /\ positions' = r.positions
        /\ dailyStats' = r.dailyStats
        /\ trades' = Moved(t, IF r.threw THEN "failed" ELSE "executed", t.order)
        /\ reseeds' = IF ~r.threw /\ (dailyStats = NoStats \/ dailyStats.date # day)
                      THEN reseeds \cup {day} ELSE reseeds
  /\ UNCHANGED <<scannerVars, routerVars, auxVars, config, day, nTrades>>

\* processTrade has returned or thrown
Finished(t) ==
  t.pc \in {"filtered", "rejected", "error", "executed", "failed", "evalThrew", "sizeThrew"}

\* the order of trade t was handed to the OrderExecutor
Submitted(t) == t.pc \in {"placing", "executed", "failed"}

\* the router's handler logs the outcome of processTrade and ends
Settle(t) ==
  /\ t \in trades /\ Finished(t)
  /\ trades' = trades \ {t}
  /\ UNCHANGED <<scannerVars, routerVars, auxVars, config, day, positions, dailyStats, reseeds, nTrades>>

\* an ensureDailyStats() started by updateDailyStats resumes after its balance
\* lookup and stores fresh stats for the day it read; when the lookup rejects,
\* the call ends with the stats as they are
ReseedDone(d, balance) ==
  /\ d \in reseeds
  /\ reseeds' = reseeds \ {d}
  /\ dailyStats' =
       IF balance = LookupThrows THEN dailyStats
       ELSE [date |-> d, startingBalance |-> balance, currentBalance |-> balance,
             totalLoss |-> 0, totalProfit |-> 0, tradesCount |-> 0]
  /\ UNCHANGED <<scannerVars, routerVars, auxVars, config, day, positions, trades, nTrades>>

\* midnight (UTC) passes
DayTick ==
  /\ day < MaxDay
  /\ day' = day + 1
  /\ UNCHANGED <<scannerVars, routerVars, auxVars, config, positions, dailyStats, reseeds, trades, nTrades>>

(***************************************************************************)
(* Specifications.                                                         *)
(***************************************************************************)
\* the fromBlock arguments startMonitoring is called with (0: omitted)
FromBlocks == {0, 1}

\* the engine while only the scanner is looked at
IdleEngine ==
  /\ config = CHOOSE c \in Configs : c.copyStrategy = "exact" /\ c.scaleNum = 0
  /\ day = 1
  /\ positions = [t \in Tokens |-> NoPosition]
  /\ dailyStats = NoStats
  /\ reseeds = {}
  /\ trades = {}
  /\ nTrades = 0

NextScanner ==
  \/ \E fb \in FromBlocks : StartMonitoring(fb)
  \/ \E s \in starts, ok \in Outcomes : StartGotHead(s, ok)
  \/ \E s \in starts, ok \in Outcomes : HistGotHead(s, ok)
  \/ StopMonitoring
  \/ NewBlock
  \/ \E s \in scans, okMaker \in Outcomes, okTaker \in Outcomes, okMatched \in Outcomes :
       GetLogsReturn(s, okMaker, okTaker, okMatched)
  \/ \E s \in scans, okBlock \in Outcomes : ParseTradeEvent(s, okBlock)
  \/ \E s \in scans : ScanAdvance(s)

\* the monitor as constructed, on a fault-free endpoint, with an engine that
\* is handed nothing
InitScannerRun ==
  faults = FALSE /\ observers = <<"ok">> /\ InitScanner /\ InitRouter /\ IdleAux /\ IdleEngine

\* the OnChainMonitor on its own
SpecScanner == InitScannerRun /\ [][NextScanner]_vars

\* the ways two trade observers can behave: one of them may throw whenever it
\* is invoked
ObserverLists == { <<"ok", "ok">>, <<"throws", "ok">>, <<"ok", "throws">> }

\* the monitor with two trade observers subscribed, on a fault-free endpoint
InitObserversRun ==
  faults = FALSE /\ observers \in ObserverLists /\ InitScanner /\ InitRouter /\ IdleAux /\ IdleEngine

\* the OnChainMonitor fanning trades out to several observers
SpecObservers == InitObserversRun /\ [][NextScanner]_vars

\* the monitor on an endpoint whose calls may fail
InitFaultyRun ==
  faults = TRUE /\ observers = <<"ok">> /\ InitScanner /\ InitRouter /\ IdleAux /\ IdleEngine

NextFaulty ==
  \/ \E fb \in FromBlocks : StartMonitoring(fb)
  \/ \E s \in starts, ok \in Outcomes : StartGotHead(s, ok)
  \/ \E s \in starts, ok \in Outcomes : HistGotHead(s, ok)
  \/ NewBlock
  \/ \E s \in scans, okMaker \in Outcomes, okTaker \in Outcomes, okMatched \in Outcomes :
       GetLogsReturn(s, okMaker, okTaker, okMatched)
  \/ \E s \in scans, okBlock \in Outcomes : ParseTradeEvent(s, okBlock)
  \/ \E s \in scans : ScanAdvance(s)

\* the OnChainMonitor on an unreliable RPC endpoint, started and left running
SpecFaulty == InitFaultyRun /\ [][NextFaulty]_vars

NextRouter ==
  \/ \E fb \in FromBlocks : WalletStartMonitoring(fb)
  \/ WalletStopMonitoring
  \/ \E s \in starts, ok \in Outcomes : StartGotHead(s, ok)
  \/ \E s \in starts, ok \in Outcomes : HistGotHead(s, ok)
  \/ NewBlock
  \/ \E s \in scans, okMaker \in Outcomes, okTaker \in Outcomes, okMatched \in Outcomes :
       GetLogsReturn(s, okMaker, okTaker, okMatched)
  \/ \E s \in scans, okBlock \in Outcomes : ParseTradeEvent(s, okBlock)
  \/ \E s \in scans : ScanAdvance(s)

\* the OnChainMonitor driven through the WalletMonitor, as index.ts does
SpecRouter == InitScannerRun /\ [][NextRouter]_vars

\* the engine as constructed, under any of the configurations, with a monitor
\* that was never started
InitEngineRun ==
  faults = FALSE /\ observers = <<"ok">> /\ InitScanner /\ InitRouter /\ IdleAux /\ InitEngine

\* a trade arrives while earlier ones may still be under way
ArriveConcurrent(tr) == nTrades < MaxInFlight /\ ProcessTrade(tr)

NextEngine ==
  \/ \E tr \in TradeInputs : ArriveConcurrent(tr)
  \/ \E t \in trades, b \in BalanceLookups :
       \E liq \in (IF config.filters.minMarketLiquidity = 0 THEN {0} ELSE Liquidities) :
         \E m \in {"none", MarketOf(t.trade.tokenID)} : Evaluate(t, m, liq, b)
  \/ \E t \in trades, b \in BalanceLookups, mp \in PriceLookups : SizeOrder(t, b, mp)
  \/ \E t \in trades : \E m \in {"none", MarketOf(t.trade.tokenID)} : PlaceOrder(t, m)
  \/ \E t \in trades, r \in Responses : OrderResponse(t, r)
  \/ \E t \in trades : Settle(t)
  \/ \E d \in reseeds, b \in BalanceLookups : ReseedDone(d, b)
  \/ DayTick

\* the CopyTradingEngine fed by the router's handler, which does not await
\* processTrade
SpecEngine == InitEngineRun /\ [][NextEngine]_vars


\* a trade arrives once the one before it is done with
ArriveSequential(tr) == nTrades < MaxTrades /\ trades = {} /\ ProcessTrade(tr)

NextSequential ==
  \/ \E tr \in TradeInputs : ArriveSequential(tr)
  \/ \E t \in trades, b \in BalanceLookups :
       \E liq \in (IF config.filters.minMarketLiquidity = 0 THEN {0} ELSE Liquidities) :
         \E m \in {"none", MarketOf(t.trade.tokenID)} : Evaluate(t, m, liq, b)
  \/ \E t \in trades, b \in BalanceLookups, mp \in PriceLookups : SizeOrder(t, b, mp)
  \/ \E t \in trades : \E m \in {"none", MarketOf(t.trade.tokenID)} : PlaceOrder(t, m)
  \/ \E t \in trades, r \in Responses : OrderResponse(t, r)
  \/ \E t \in trades : Settle(t)
  \/ \E d \in reseeds, b \in BalanceLookups : ReseedDone(d, b)
  \/ DayTick

\* the CopyTradingEngine when every processTrade call is awaited before the
\* next trade is handed over
SpecSequential == InitEngineRun /\ [][NextSequential]_vars

\* the wallets the user adds, removes, enables and disables while the scanner
\* runs; the other wallets stay registered and enabled
ManagedWallets == {"w1"}

NextWallets ==
  \/ \E fb \in FromBlocks : StartMonitoring(fb)
  \/ \E s \in starts, ok \in Outcomes : StartGotHead(s, ok)
  \/ \E s \in starts, ok \in Outcomes : HistGotHead(s, ok)
  \/ NewBlock
  \/ \E s \in scans, okMaker \in Outcomes, okTaker \in Outcomes, okMatched \in Outcomes :
       GetLogsReturn(s, okMaker, okTaker, okMatched)
  \/ \E s \in scans, okBlock \in Outcomes : ParseTradeEvent(s, okBlock)
  \/ \E s \in scans : ScanAdvance(s)
  \/ \E w \in ManagedWallets, en \in Enablings : AddWallet(w, en)
  \/ \E w \in ManagedWallets : RemoveWallet(w)
  \/ \E w \in ManagedWallets, en \in Enablings : UpdateWalletConfig(w, en)

\* the router in front of a running scanner while wallets are added, removed,
\* enabled and disabled
SpecWallets == InitScannerRun /\ [][NextWallets]_vars

\* the market filters a configuration can carry: a whitelist (configured or
\* not), a blacklist and a minimum liquidity
FilterSets ==
  [whitelistMarkets : [configured : BOOLEAN, markets : {{}, {"M1"}}],
   blacklistMarkets : {{}, {"M2"}, {"M1", "M2"}},
   minMarketLiquidity : {0, 1000}]

\* exact-strategy configurations with market filters
FilterConfigs ==
  { [copyStrategy |-> "exact", scaleNum |-> 0, scaleDen |-> 1,
     pctNum |-> 1, pctDen |-> 2,
     maxPositionSize |-> 1200, maxOrderValue |-> 800, maxDailyLoss |-> 500,
     maxSlippage |-> 2, filters |-> f] : f \in FilterSets }

InitFiltersRun ==
  /\ faults = FALSE /\ observers = <<"ok">> /\ InitScanner /\ InitRouter /\ IdleAux
  /\ config \in FilterConfigs
  /\ day = 1
  /\ positions = [t \in Tokens |-> NoPosition]
  /\ dailyStats = NoStats
  /\ reseeds = {}
  /\ trades = {}
  /\ nTrades = 0

\* the CopyTradingEngine with market filters configured, trades one at a time
SpecFilters == InitFiltersRun /\ [][NextSequential]_vars

\* detected trades carrying the price "0" that parseTradeEvent emits when it
\* cannot tell the price (TransferSingle, or a fill with a zero amount)
ZeroPriceInputs == [tokenID : Tokens, side : Sides, price : {0}, size : Sizes]

\* a trade without a price arrives after the previous one was dealt with
ArriveZeroPrice(tr) == nTrades < MaxTrades /\ trades = {} /\ ProcessTrade(tr)

NextZeroPrice ==
  \/ \E tr \in ZeroPriceInputs : ArriveZeroPrice(tr)
  \/ \E t \in trades, b \in BalanceLookups :
       \E liq \in (IF config.filters.minMarketLiquidity = 0 THEN {0} ELSE Liquidities) :
         \E m \in {"none", MarketOf(t.trade.tokenID)} : Evaluate(t, m, liq, b)
  \/ \E t \in trades, b \in BalanceLookups, mp \in PriceLookups : SizeOrder(t, b, mp)
  \/ \E t \in trades : \E m \in {"none", MarketOf(t.trade.tokenID)} : PlaceOrder(t, m)
  \/ \E t \in trades, r \in Responses : OrderResponse(t, r)
  \/ \E t \in trades : Settle(t)
  \/ \E d \in reseeds, b \in BalanceLookups : ReseedDone(d, b)
  \/ DayTick

\* the CopyTradingEngine fed with trades whose price is not known
SpecZeroPrice == InitEngineRun /\ [][NextZeroPrice]_vars

\* the lists of wallets a trackedWallets.json can hold
WalletFiles == SUBSET Wallets

NextWalletFile ==
  \/ \E fb \in FromBlocks : StartMonitoring(fb)
  \/ \E s \in starts, ok \in Outcomes : StartGotHead(s, ok)
  \/ \E s \in starts, ok \in Outcomes : HistGotHead(s, ok)
  \/ \E s \in scans, okMaker \in Outcomes, okTaker \in Outcomes, okMatched \in Outcomes :
       GetLogsReturn(s, okMaker, okTaker, okMatched)
  \/ \E s \in scans, okBlock \in Outcomes : ParseTradeEvent(s, okBlock)
  \/ \E s \in scans : ScanAdvance(s)
  \/ \E w \in Wallets : AddWallet(w, "enabled")
  \/ \E w \in Wallets : RemoveWallet(w)
  \/ \E fileWallets \in WalletFiles : LoadWalletsFromFile(fileWallets)

\* the router in front of a scanner that backfills, on a chain whose head
\* stands still, while wallets are added, removed and loaded from a file
SpecWalletFile == InitScannerRun /\ [][NextWalletFile]_vars

(***************************************************************************)
(* getMarketMetadata and its cache.  Time is counted in units of half the  *)
(* TTL.  A call reads the clock once, when it starts; the order book and   *)
(* the market directory answer later, and other calls may start meanwhile. *)
(***************************************************************************)
MARKET_CACHE_TTL == 2

\* the token ids getMarketMetadata is called with; "0" is the id parseTradeEvent
\* initialises a trade with
LookupTokens == Tokens \cup {"0"}

\* what a collaborator (getOrderBook, fetchMarkets) can answer for a token
Answers == {"found", "miss", "throws"}

\* the return value null, and that of a call that has not returned
NullMeta == [via |-> "null"]
NoReturn == [via |-> "pending"]
\* a call that rejected
Thrown == [via |-> "thrown"]

\* getMarketMetadata(tokenID) up to its first await: null for an unusable id,
\* the cached entry when there is one and the shared timestamp is younger than
\* the TTL, else the order book is asked
GetMarketMetadata(tokenID) ==
  /\ nLookups' = nLookups + 1
  /\ LET l == [id |-> nLookups + 1, tokenID |-> tokenID, now |-> now,
               orderBook |-> "none", markets |-> "none"]
     IN lookups' = lookups \cup
          { IF tokenID = "0"
            THEN l @@ [pc |-> "done", ret |-> NullMeta]
            ELSE IF /\ marketMetadata[tokenID] # NoMeta
                    /\ now - marketMetadataCacheTime < MARKET_CACHE_TTL
            THEN l @@ [pc |-> "done", ret |-> marketMetadata[tokenID]]
            ELSE [l EXCEPT !.orderBook = "asked"] @@ [pc |-> "orderBook", ret |-> NoReturn] }
  /\ UNCHANGED <<now, marketMetadata, marketMetadataCacheTime>>
  /\ UNCHANGED <<scannerVars, routerVars, engineVars, fnVars, walletVars, chVars>>

\* getOrderBook answers: an order book is stored under the token, stamped
\* with the time the call read at its start, and returned; without one (or on
\* an error, which is caught) the market directory is asked
OrderBookAnswers(l, answer) ==
  /\ l \in lookups /\ l.pc = "orderBook"
  /\ IF answer = "found"
     THEN LET marketInfo == [via |-> "orderBook", fetched |-> now]
          IN /\ marketMetadata' = [marketMetadata EXCEPT ![l.tokenID] = marketInfo]
             /\ marketMetadataCacheTime' = l.now
             /\ lookups' = (lookups \ {l}) \cup
                   {[l EXCEPT !.orderBook = answer, !.pc = "done", !.ret = marketInfo]}
     ELSE /\ lookups' = (lookups \ {l}) \cup
                   {[l EXCEPT !.orderBook = answer, !.markets = "asked",
                              !.pc = "markets"]}
          /\ UNCHANGED <<marketMetadata, marketMetadataCacheTime>>
  /\ UNCHANGED <<now, nLookups>>
  /\ UNCHANGED <<scannerVars, routerVars, engineVars, fnVars, walletVars, chVars>>

\* fetchMarkets whose error reaches the caller of getMarketMetadata
MarketsAnswerUncaught(l, answer) ==
  /\ l \in lookups /\ l.pc = "markets"
  /\ IF answer = "found"
     THEN LET marketInfo == [via |-> "markets", fetched |-> now]
          IN /\ marketMetadata' = [marketMetadata EXCEPT ![l.tokenID] = marketInfo]
             /\ marketMetadataCacheTime' = l.now
             /\ lookups' = (lookups \ {l}) \cup
                   {[l EXCEPT !.markets = answer, !.pc = "done", !.ret = marketInfo]}
     ELSE /\ lookups' = (lookups \ {l}) \cup
                   {[l EXCEPT !.markets = answer, !.pc = "done",
                              !.ret = IF answer = "throws" THEN Thrown ELSE NullMeta]}
          /\ UNCHANGED <<marketMetadata, marketMetadataCacheTime>>
  /\ UNCHANGED <<now, nLookups>>
  /\ UNCHANGED <<scannerVars, routerVars, engineVars, fnVars, walletVars, chVars>>

\* fetchMarkets answers: a market listing the token is stored and returned
\* like an order book; without one (or on an error, which is caught) the
\* call returns null and stores nothing
MarketsAnswer(l, answer) ==
  /\ l \in lookups /\ l.pc = "markets"
  /\ IF answer = "found"
     THEN LET marketInfo == [via |-> "markets", fetched |-> now]
          IN /\ marketMetadata' = [marketMetadata EXCEPT ![l.tokenID] = marketInfo]
             /\ marketMetadataCacheTime' = l.now
             /\ lookups' = (lookups \ {l}) \cup
                   {[l EXCEPT !.markets = answer, !.pc = "done", !.ret = marketInfo]}
     ELSE /\ lookups' = (lookups \ {l}) \cup
                   {[l EXCEPT !.markets = answer, !.pc = "done", !.ret = NullMeta]}
          /\ UNCHANGED <<marketMetadata, marketMetadataCacheTime>>
  /\ UNCHANGED <<now, nLookups>>
  /\ UNCHANGED <<scannerVars, routerVars, engineVars, fnVars, walletVars, chVars>>

\* time passes
ClockTick ==
  /\ now < MaxClock
  /\ now' = now + 1
  /\ UNCHANGED <<marketMetadata, marketMetadataCacheTime, lookups, nLookups>>
  /\ UNCHANGED <<scannerVars, routerVars, engineVars, fnVars, walletVars, chVars>>

InitCacheRun ==
  /\ faults = FALSE /\ observers = <<"ok">> /\ InitScanner /\ InitRouter /\ IdleEngine
  /\ IdleFn /\ InitWallets /\ InitCache /\ InitChannel

\* a lookup starts while earlier ones may still be waiting for an answer
LookupConcurrent(tokenID) == nLookups < MaxLookups /\ GetMarketMetadata(tokenID)

NextCache ==
  \/ \E tokenID \in LookupTokens : LookupConcurrent(tokenID)
  \/ \E l \in lookups, answer \in Answers : OrderBookAnswers(l, answer)
  \/ \E l \in lookups, answer \in Answers : MarketsAnswer(l, answer)
  \/ ClockTick

\* the metadata cache under calls that may overlap
SpecCache == InitCacheRun /\ [][NextCache]_vars

\* a lookup starts after every earlier one has returned
LookupSerial(tokenID) ==
  /\ nLookups < MaxSerialLookups
  /\ \A l \in lookups : l.pc = "done"
  /\ GetMarketMetadata(tokenID)

NextCacheSerial ==
  \/ \E tokenID \in LookupTokens : LookupSerial(tokenID)
  \/ \E l \in lookups, answer \in Answers : OrderBookAnswers(l, answer)
  \/ \E l \in lookups, answer \in Answers : MarketsAnswer(l, answer)
  \/ ClockTick

\* the metadata cache under calls made one after the other
SpecCacheSerial == InitCacheRun /\ [][NextCacheSerial]_vars

(***************************************************************************)
(* The functions that keep no state, each called once with arguments       *)
(* drawn from the sets below.                                              *)
(***************************************************************************)
\* the parties of a fill: the watched wallets and somebody else
Parties == Wallets \cup {"x"}

\* decoded OrderFilled / OrdersMatched logs between two different parties
\* (for OrdersMatched `maker` is takerOrderMaker)
FnLogs ==
  { l \in [kind : {"OrderFilled", "OrdersMatched"}, maker : Parties, taker : Parties,
           makerAssetId : Tokens, takerAssetId : Tokens] : l.maker # l.taker }

\* source trades as calculateCopyOrder hands them to calculateOrderParams
FnTrades == [tokenID : {"A"}, side : Sides, price : {490, 500, 510, 520, 600},
             size : {2, 4, 100}]

\* strategy configurations; the scale factors are 0.01 and 0.5, maxSlippage is
\* 0.02 or 0.04
FnConfigs ==
  [copyStrategy : {"exact", "scaled", "percentage", "adaptive"},
   scaleNum : {1}, scaleDen : {2, 100}, pctNum : {1}, pctDen : {2},
   maxSlippage : {2, 4}]

FnMarketPrices == {500, 1000}

\* the calls; the arguments are those for which the model's integer
\* arithmetic is exact
FnCalls ==
  { c \in [fn : {"calculateOrderParams"}, trade : FnTrades, cfg : FnConfigs,
           currentBalance : {1600}, currentMarketPrice : FnMarketPrices] :
      /\ (c.trade.size * c.cfg.scaleNum) % c.cfg.scaleDen = 0
      /\ (c.currentMarketPrice * c.cfg.maxSlippage) % 200 = 0 }
  \cup [fn : {"parseTradeEvent"}, log : FnLogs, wallets : SUBSET Wallets]
  \cup [fn : {"calculateCopyOrder"}, trade : TradeInputs, cfg : Configs,
        balance : Balances, marketPrice : MarketPrices,
        positions : {[t \in Tokens |-> NoPosition]}]

InitFunctionsRun ==
  /\ faults = FALSE /\ observers = <<"ok">> /\ InitScanner /\ InitRouter /\ IdleEngine
  /\ InitWallets /\ InitCache /\ InitChannel
  /\ call \in FnCalls
  /\ result = NoResult

CallCalculateOrderParams ==
  /\ call.fn = "calculateOrderParams"
  /\ result = NoResult
  /\ result' = [fn |-> call.fn,
                value |-> calculateOrderParams(call.trade, call.cfg, call.currentBalance,
                                               call.currentMarketPrice)]
  /\ UNCHANGED <<call, walletVars, cacheVars, chVars, scannerVars, routerVars, engineVars>>

CallParseTradeEvent ==
  /\ call.fn = "parseTradeEvent"
  /\ result = NoResult
  /\ result' = [fn |-> call.fn, value |-> DetectedTrade(call.log, call.wallets)]
  /\ UNCHANGED <<call, walletVars, cacheVars, chVars, scannerVars, routerVars, engineVars>>

CallCalculateCopyOrder ==
  /\ call.fn = "calculateCopyOrder"
  /\ result = NoResult
  /\ result' = [fn |-> call.fn,
                value |-> calculateCopyOrder(call.trade, call.cfg, call.balance,
                                             call.marketPrice, call.positions)]
  /\ UNCHANGED <<call, walletVars, cacheVars, chVars, scannerVars, routerVars, engineVars>>

NextFunctions ==
  \/ CallCalculateOrderParams
  \/ CallParseTradeEvent
  \/ CallCalculateCopyOrder

\* the stateless functions on their own
SpecFunctions == InitFunctionsRun /\ [][NextFunctions]_vars

(***************************************************************************)
(* The MarketChannel.  A socket is created by connect(), opens or fails    *)
(* later, and its handlers keep acting on the channel whether or not it is *)
(* still the channel's `ws`.                                               *)
(***************************************************************************)
maxReconnectAttempts == 5
\* how many sockets a run creates
MaxSockets == 6
\* the clean close code that disconnect() sends, and the code of a connection
\* that was lost or could not be established
CloseNormal == 1000
CloseAbnormal == 1006
CloseCodes == {CloseNormal, CloseAbnormal}
\* the assets every connect() of a run is called with
initialAssetIds == {"A"}

\* ws.readyState of socket id
ReadyState(id) ==
  IF \E s \in sockets : s.id = id
  THEN (CHOOSE s \in sockets : s.id = id).readyState
  ELSE "CLOSED"

\* getConnectionStatus(): the test connect() starts with
getConnectionStatus == isConnected /\ ws # 0 /\ ReadyState(ws) = "OPEN"

\* connect(initialAssetIds) up to the creation of the socket: nothing when the
\* channel is connected, otherwise a new WebSocket that becomes `ws`
connect ==
  IF getConnectionStatus
  THEN UNCHANGED <<ws, sockets, nSockets>>
  ELSE /\ nSockets < MaxSockets
       /\ nSockets' = nSockets + 1
       /\ ws' = nSockets + 1
       /\ sockets' = sockets \cup {[id |-> nSockets + 1, readyState |-> "CONNECTING",
                                    code |-> CloseAbnormal]}

\* attemptReconnect(initialAssetIds): counts the attempt and arms a timer
attemptReconnect ==
  /\ reconnectAttempts' = reconnectAttempts + 1
  /\ reconnectTimers' = reconnectTimers + 1

\* ws.onclose of a socket that closed with `code`
onclose(code) ==
  /\ isConnected' = FALSE
  /\ pingInterval' = FALSE
  /\ IF code # CloseNormal /\ reconnectAttempts < maxReconnectAttempts
     THEN attemptReconnect
     ELSE UNCHANGED <<reconnectAttempts, reconnectTimers>>

\* the user calls connect(initialAssetIds)
Connect ==
  /\ connect
  /\ userCall' = "connect"
  /\ UNCHANGED <<isConnected, pingInterval, subscribedAssets, reconnectAttempts,
                 reconnectTimers>>
  /\ UNCHANGED <<scannerVars, routerVars, engineVars, fnVars, walletVars, cacheVars>>

\* ws.onopen of socket s: the channel is connected, the attempts start from
\* zero, the ping interval runs, and subscribe(initialAssetIds) records the
\* assets unless `ws` is by now another socket that is not open (it throws)
SocketOpens(s) ==
  /\ s \in sockets /\ s.readyState = "CONNECTING"
  /\ sockets' = (sockets \ {s}) \cup {[s EXCEPT !.readyState = "OPEN"]}
  /\ isConnected' = TRUE
  /\ reconnectAttempts' = 0
  /\ pingInterval' = TRUE
  /\ subscribedAssets' = IF ws = s.id THEN subscribedAssets \cup initialAssetIds
                         ELSE subscribedAssets
  /\ UNCHANGED <<ws, nSockets, reconnectTimers, userCall>>
  /\ UNCHANGED <<scannerVars, routerVars, engineVars, fnVars, walletVars, cacheVars>>

\* a socket that the client did not close fails to connect, loses its
\* connection or is closed by the server: ws.onclose with the code
SocketLost(s, code) ==
  /\ s \in sockets /\ s.readyState \in {"CONNECTING", "OPEN"}
  /\ sockets' = sockets \ {s}
  /\ onclose(code)
  /\ UNCHANGED <<ws, nSockets, subscribedAssets, userCall>>
  /\ UNCHANGED <<scannerVars, routerVars, engineVars, fnVars, walletVars, cacheVars>>

\* the close that disconnect() started on socket s completes: ws.onclose
SocketClosed(s) ==
  /\ s \in sockets /\ s.readyState = "CLOSING"
  /\ sockets' = sockets \ {s}
  /\ onclose(s.code)
  /\ UNCHANGED <<ws, nSockets, subscribedAssets, userCall>>
  /\ UNCHANGED <<scannerVars, routerVars, engineVars, fnVars, walletVars, cacheVars>>

\* the user calls disconnect(): ws.close(1000, ...) on the socket, if any.  An
\* open socket closes with code 1000; closing a socket that is still
\* connecting fails the connection, and the close event then carries 1006 or,
\* depending on the runtime, the code given (`code`)
Disconnect(code) ==
  /\ sockets' = { IF s.id = ws
                  THEN [s EXCEPT !.readyState = "CLOSING",
                                 !.code = IF s.readyState = "OPEN" THEN CloseNormal
                                          ELSE IF s.readyState = "CONNECTING" THEN code
                                          ELSE s.code]
                  ELSE s : s \in sockets }
  /\ ws' = 0
  /\ pingInterval' = FALSE
  /\ isConnected' = FALSE
  /\ subscribedAssets' = {}
  /\ userCall' = "disconnect"
  /\ UNCHANGED <<nSockets, reconnectAttempts, reconnectTimers>>
  /\ UNCHANGED <<scannerVars, routerVars, engineVars, fnVars, walletVars, cacheVars>>

\* a timer of attemptReconnect fires: connect(initialAssetIds)
ReconnectTimer ==
  /\ reconnectTimers > 0
  /\ reconnectTimers' = reconnectTimers - 1
  /\ connect
  /\ UNCHANGED <<isConnected, pingInterval, subscribedAssets, reconnectAttempts, userCall>>
  /\ UNCHANGED <<scannerVars, routerVars, engineVars, fnVars, walletVars, cacheVars>>

\* a MarketChannel beside an idle scanner, router and engine
InitChannelRun ==
  /\ faults = FALSE /\ observers = <<"ok">> /\ InitScanner /\ InitRouter /\ IdleEngine
  /\ IdleFn /\ InitWallets /\ InitCache /\ InitChannel

NextChannel ==
  \/ Connect
  \/ \E s \in sockets : SocketOpens(s)
  \/ \E s \in sockets, code \in CloseCodes : SocketLost(s, code)
  \/ \E s \in sockets : SocketClosed(s)
  \/ \E code \in CloseCodes : Disconnect(code)
  \/ ReconnectTimer

\* the MarketChannel on a network where any socket may fail
SpecChannel == InitChannelRun /\ [][NextChannel]_vars


(***************************************************************************)
(* Properties of the OnChainMonitor.                                       *)
(***************************************************************************)
\* two block ranges have a block in common
Overlap(s1, s2) == s1.from <= s2.to /\ s2.from <= s1.to

\* C1: in the live tail no two scans in flight cover an overlapping block
\* range: a notification that arrives during a scan waits for it.
LiveScansDisjoint ==
  \A s1 \in scans, s2 \in scans :
    (s1 # s2 /\ s1.kind = "live" /\ s2.kind = "live") => ~Overlap(s1, s2)

\* C2: over a whole run every log, identified by (tx, logIndex), is handed to
\* the trade observers at most once.
DeliveredAtMostOnce == \A i \in LogIds : delivered[i] <= 1

\* C3: within one window and contract a log that several role queries return
\* is emitted as exactly one trade.
WindowEmitsLogOnce ==
  \A s \in scans : \A i \in 1..Len(s.sent), j \in 1..Len(s.sent) :
    i # j => s.sent[i] # s.sent[j]

\* C4: once stopMonitoring() has returned (the monitor is not monitoring), no
\* trade observer is invoked any more, whatever scan was in flight.
NoCallbackAfterStop == [][~isMonitoring => delivered' = delivered]_vars

\* C5: no step of the block handlers lowers the chain cursor (the assignments
\* of startMonitoring itself, which change `starts`, are left aside).
CursorMonotonic ==
  [][starts' = starts => lastProcessedBlock' >= lastProcessedBlock]_vars

\* C13: when one of several subscribed observers throws while handling a
\* trade, every other observer still receives that trade, and the scan goes on
\* with the next event instead of being given up.
ObserversAllReceive ==
  [][ /\ \A e \in LogIds :
           (\E i \in DOMAIN received : e \in received'[i] \ received[i]) =>
             \A j \in DOMAIN received : e \in received'[j]
      /\ delivered' # delivered => Cardinality(scans') = Cardinality(scans) ]_vars

\* the logs of the scan's current contract in its window that involve a
\* watched wallet
MatchingLogs(s) ==
  { l.id : l \in { m \in ChainLogs :
      /\ m.contract = monitoringContracts[s.ci]
      /\ m.block >= s.from /\ m.block <= s.to
      /\ EventWallet(m, s.wallets) # "none" } }

\* C14: within one window a failed query against one contract does not
\* suppress the trades of a healthy contract: once the events of a contract
\* whose queries all succeeded are through, every matching log of that contract
\* in the window has been emitted, whatever failed for the other contracts.
HealthyContractEmitted ==
  \A s \in scans :
    (s.pc = "emit" /\ s.queue = <<>> /\ s.ci \notin s.failed) =>
      MatchingLogs(s) \subseteq { s.sent[i] : i \in 1..Len(s.sent) }

\* witness of C14: the queries of the first contract failed and a trade of the
\* second contract was emitted in the same window
EmittedAfterFailedContract ==
  \E s \in scans :
    /\ s.pc = "emit" /\ s.queue = <<>>
    /\ s.ci = 2 /\ s.failed = {1}
    /\ MatchingLogs(s) # {}
    /\ Len(s.sent) > 0

\* the step in which a scan's getLogs queries return with a failure among them
QueryFailed ==
  \E s \in scans \ scans' :
    /\ s.pc = "getLogs"
    /\ \E u \in scans' \ scans :
         /\ u.pc = "emit" /\ u.sent = <<>>
         /\ u.kind = s.kind /\ u.owner = s.owner /\ u.from = s.from /\ u.to = s.to
         /\ u.ci = s.ci /\ u.ci \in u.failed

\* C15: whenever a getLogs query for a contract and window fails, the failure
\* is reported to the error observers (and the scan goes on with the window
\* counted as processed).
QueryFailureReported ==
  [][ QueryFailed => (errorCalls' > errorCalls /\ Cardinality(scans') = Cardinality(scans))
    ]_vars

\* C16: once the router's stopMonitoring() has returned, at whatever moment
\* after its startMonitoring() it was called, the scanner is halted: not
\* monitoring, block listener removed.
StopHaltsScanner == wmStopped => (~isMonitoring /\ listeners = 0)

\* C17: a startMonitoring() that fails on its chain-head lookup leaves the
\* monitor stopped: not marked monitoring, no block listener attached.
FailedStartLeavesStopped ==
  [][ \A s \in starts :
        (s.pc = "getHead" /\ ~ \E u \in starts' : u.id = s.id) =>
          (~isMonitoring' /\ listeners' = 0) ]_vars

(***************************************************************************)
(* Properties of the CopyTradingEngine.                                    *)
(***************************************************************************)
\* the step takes trade t from pc `from` to pc `to`
Goes(t, from, to) ==
  /\ t.pc = from
  /\ \E u \in trades' : u.id = t.id /\ u.pc = to

\* C6: a submission that throws or comes back with an explicit failure leaves
\* the positions and the daily stats as they were; the positions change only
\* in the step of a successful response, which also counts the trade in the
\* daily stats.
FailedExecuteChangesNothing ==
  [][ /\ \A t \in trades :
           Goes(t, "placing", "failed") =>
             positions' = positions /\ dailyStats' = dailyStats
      /\ positions' # positions =>
           \E t \in trades :
             /\ Goes(t, "placing", "executed")
             /\ dailyStats'.tradesCount = dailyStats.tradesCount + 1 ]_vars

\* witness of C6: an order was submitted and failed while a position was held
FailedExecuteWithPosition ==
  /\ \E t \in trades : t.pc = "failed"
  /\ \E tok \in Tokens : positions[tok] # NoPosition
  /\ dailyStats # NoStats /\ dailyStats.tradesCount > 0

\* C7: every stored position has valueUSD >= 0.
PositionValueNonNegative ==
  \A tok \in Tokens : positions[tok] # NoPosition => positions[tok].valueUSD >= 0

\* C8: every order handed to the OrderExecutor has price * size <=
\* maxOrderValue, under every strategy.
SubmittedWithinMaxOrderValue ==
  \A t \in trades :
    Submitted(t) => t.order.price * t.order.size <= config.maxOrderValue

\* evaluate() (shouldCopyTrade) returned true for trade t
Accepted(t) == t.pc \notin {"evaluate", "filtered", "evalThrew"}

PositionWithinMaxPositionSize ==
  \A tok \in Tokens :
    positions[tok] # NoPosition => positions[tok].valueUSD <= config.maxPositionSize

\* C11: when every trade is processed to the end before the next one is
\* handed over, every stored position has valueUSD <= maxPositionSize, and an
\* order that calculateCopyOrder let through fits on top of the position held
\* for its token.
SequentialPositionWithinLimit ==
  /\ \A tok \in Tokens :
       positions[tok] # NoPosition => positions[tok].valueUSD <= config.maxPositionSize
  /\ \A t \in trades :
       t.pc \in {"execute", "placing"} =>
         (IF positions[t.order.tokenID] = NoPosition THEN 0
          ELSE positions[t.order.tokenID].valueUSD) + t.order.price * t.order.size
           <= config.maxPositionSize

\* witness of C11: under the exact strategy, where calculateCopyOrder returns
\* null for no other reason, a BUY was turned down on top of a held position
PositionLimitRejected ==
  \E t \in trades :
    /\ t.pc = "rejected"
    /\ t.trade.side = "BUY"
    /\ config.copyStrategy = "exact"
    /\ positions[t.trade.tokenID] # NoPosition
    /\ positions[t.trade.tokenID].valueUSD + t.trade.price * t.trade.size
         > config.maxPositionSize

\* C12: evaluate() lets a trade through only if the day's cumulative loss plus
\* 10% of the order value (the trade's value times the configured scaleFactor)
\* stays within maxDailyLoss, and while the stats of the current day show a
\* cumulative loss above maxDailyLoss no order is handed to the OrderExecutor.
NoOrderOnceDailyLossExceeded ==
  [][ \A t \in trades :
        /\ Goes(t, "evaluate", "size") =>
             ~wouldExceedDailyLoss(t.trade, config, dailyStats')
        /\ ( /\ dailyStats # NoStats
             /\ dailyStats.date = day
             /\ dailyStats.totalLoss > config.maxDailyLoss )
             => ~Goes(t, "execute", "placing") ]_vars

\* the trade a step makes of trade t: the same call one step later
After(t) == { u \in trades' : u.id = t.id }

\* C18: for every trade the OrderExecutor is invoked only after evaluate()
\* returned true and then size() returned an order, in that order; a trade
\* turned down at either stage stays as it is, with no order submitted, and the
\* step that turns it down leaves the positions unchanged.
ExecutorOnlyAfterEvaluateAndSize ==
  [][ /\ \A u \in trades' :
           (~ \E t \in trades : t.id = u.id) => (u.pc = "evaluate" /\ u.subs = 0)
      /\ \A t \in trades : \A u \in After(t) :
           /\ (u.pc = "size" /\ t.pc # "size") =>
                /\ t.pc = "evaluate"
                /\ \E liq \in Liquidities :
                     shouldCopyTrade(t.trade, config, MarketOf(t.trade.tokenID), liq,
                                     dailyStats')
           /\ (u.pc = "execute" /\ t.pc # "execute") =>
                /\ t.pc = "size"
                /\ \E b \in Balances, mp \in MarketPrices :
                     /\ calculateCopyOrder(t.trade, config, b, mp, positions)
                          \notin {NullOrder, ThrowOrder}
                     /\ u.order = calculateCopyOrder(t.trade, config, b, mp, positions)
           /\ (u.pc = "placing" /\ t.pc # "placing") =>
                (t.pc = "execute" /\ u.order = t.order)
           /\ (u.pc \in {"filtered", "rejected"} /\ u.pc # t.pc) =>
                (positions' = positions /\ u.subs = 0)
           /\ t.pc \in {"filtered", "rejected"} => u = t ]_vars

\* witness of C18: with a position held from an executed order, a later trade
\* was turned down by size() and ended without a submission
RejectedAfterExecuted ==
  /\ \E t \in trades : t.pc = "rejected" /\ t.subs = 0
  /\ \E tok \in Tokens : positions[tok] # NoPosition
  /\ nTrades > 1

\* C19: for each processed trade the OrderExecutor is invoked at most once: a
\* failed submission ends processTrade with the error and the order is not
\* submitted again.
SubmittedAtMostOnce ==
  [][ \A t \in trades : \A u \in After(t) :
        /\ u.subs <= 1
        /\ Submitted(t) => u.subs = t.subs
        /\ t.pc = "failed" => u = t
        /\ (t.pc = "placing" /\ u.pc # "placing") => u.pc \in {"executed", "failed"} ]_vars

\* witness of C19: a submission failed, after exactly one invocation of the
\* executor for that trade
FailedAfterOneSubmission == \E t \in trades : t.pc = "failed" /\ t.subs = 1

\* C20: a balance or market-price lookup that fails while a trade is being
\* decided never makes shouldCopyTrade, calculateCopyOrder or processTrade
\* raise: the trade is turned down instead.
LookupFailureNotRaised == \A t \in trades : t.pc \notin {"evalThrew", "sizeThrew"}

\* C24: within one calendar day (the stats are of today and no rollover is
\* under way) every successful execution debits the running balance by the
\* notional of a BUY and credits it by that of a SELL, counts one trade and
\* leaves the day-open balance alone, nothing else touches the stats, and
\* stats that are (re)seeded start at the day-open balance with count 0; a
\* SELL of the whole position deletes it.
DailyBalanceTracksExecutions ==
  [][ /\ dailyStats'.date # dailyStats.date =>
           /\ dailyStats'.currentBalance = dailyStats'.startingBalance
           /\ dailyStats'.tradesCount = 0
      /\ (dailyStats # NoStats /\ dailyStats.date = day /\ reseeds = {}) =>
           IF \E t \in trades : Goes(t, "placing", "executed")
           THEN \A t \in trades :
                  Goes(t, "placing", "executed") =>
                    LET notional == t.order.price * t.order.size
                        held == positions[t.order.tokenID]
                    IN /\ dailyStats'.date = dailyStats.date
                       /\ dailyStats'.startingBalance = dailyStats.startingBalance
                       /\ dailyStats'.tradesCount = dailyStats.tradesCount + 1
                       /\ dailyStats'.currentBalance =
                            IF t.order.side = "BUY"
                            THEN dailyStats.currentBalance - notional
                            ELSE dailyStats.currentBalance + notional
                       /\ ( /\ t.order.side = "SELL"
                            /\ held # NoPosition
                            /\ held.size <= t.order.size )
                            => positions'[t.order.tokenID] = NoPosition
           ELSE dailyStats' = dailyStats ]_vars

\* witness of C24: a BUY and then a SELL of the same size at a higher price
\* were executed on one day: the position is gone and the running balance is
\* above the day-open balance by the difference of the notionals
BoughtThenSoldOut ==
  /\ dailyStats # NoStats /\ dailyStats.date = day /\ reseeds = {}
  /\ dailyStats.tradesCount = 2
  /\ dailyStats.currentBalance = dailyStats.startingBalance + 600
  /\ \E t \in trades :
       /\ t.pc = "executed" /\ t.order.side = "SELL"
       /\ t.order.price = 400 /\ t.order.size = 2
       /\ positions[t.order.tokenID] = NoPosition

\* C28: every stored position satisfies valueUSD = avgPrice * size: a partial
\* SELL takes the sold size off at the existing average price.
PositionValueIsAvgTimesSize ==
  \A tok \in Tokens :
    positions[tok] # NoPosition =>
      positions[tok].valueUSD * positions[tok].avgDen
        = positions[tok].avgNum * positions[tok].size

\* C29: cumulative loss = max(0, day-open balance - running balance) and
\* cumulative profit = max(0, running balance - day-open balance).
LossAndProfitAreTheDeviation ==
  dailyStats # NoStats =>
    /\ dailyStats.totalLoss = Max(0, dailyStats.startingBalance - dailyStats.currentBalance)
    /\ dailyStats.totalProfit = Max(0, dailyStats.currentBalance - dailyStats.startingBalance)

\* C30: an order that executes on a later day than the date key of the stats
\* is recorded in stats rolled over to that day: after every successful
\* execution the stats carry today's date, and when they were of another day
\* the execution is the first one counted.
ExecutionRecordedInTodaysStats ==
  [][ \A t \in trades :
        Goes(t, "placing", "executed") =>
          /\ dailyStats'.date = day
          /\ dailyStats.date # day => dailyStats'.tradesCount = 1 ]_vars

(***************************************************************************)
(* Properties of the stateless functions.                                  *)
(***************************************************************************)
\* C23: the trade emitted for a two-party fill carries a watched party of the
\* fill as walletAddress; when that wallet is the maker the trade is a SELL of
\* the maker-leg asset, when it is the taker a BUY of the taker-leg asset.
FillSideFollowsRole ==
  (result.fn = "parseTradeEvent" /\ call.log.kind = "OrderFilled"
     /\ result.value # NoTrade) =>
    LET l == call.log
        t == result.value
    IN /\ t.walletAddress \in call.wallets \cap {l.maker, l.taker}
       /\ t.walletAddress = l.maker => (t.side = "SELL" /\ t.tokenID = l.makerAssetId)
       /\ t.walletAddress = l.taker => (t.side = "BUY" /\ t.tokenID = l.takerAssetId)

\* witness of C23: a fill between a stranger (maker) and a watched wallet
\* (taker) with different assets on the two legs was emitted as the taker's BUY
TakerFillEmitted ==
  /\ result.fn = "parseTradeEvent" /\ call.log.kind = "OrderFilled"
  /\ call.log.taker \in call.wallets /\ call.log.maker \notin call.wallets
  /\ call.log.makerAssetId # call.log.takerAssetId
  /\ result.value # NoTrade
  /\ result.value.walletAddress = call.log.taker
  /\ result.value.side = "BUY"

\* C26: scaled: replica price = source price and replica size = source size
\* x scaleFactor; exact: replica price and size are the source's.
ScaledAndExactReplica ==
  (result.fn = "calculateOrderParams" /\ result.value # ThrowOrder) =>
    LET trade == call.trade
        cfg == call.cfg
        order == result.value
    IN /\ cfg.copyStrategy = "exact" =>
            (order.price = trade.price /\ order.size = trade.size)
       /\ cfg.copyStrategy = "scaled" =>
            /\ order.price = trade.price
            /\ order.size * cfg.scaleDen = trade.size * cfg.scaleNum

\* witness of C26: size 100 with scaleFactor 0.01 came back as size 1 at the
\* source price
ScaledHundredth ==
  /\ result.fn = "calculateOrderParams"
  /\ call.cfg.copyStrategy = "scaled"
  /\ call.cfg.scaleNum = 1 /\ call.cfg.scaleDen = 100
  /\ call.trade.size = 100
  /\ result.value # ThrowOrder
  /\ result.value.size = 1
  /\ result.value.price = call.trade.price

\* C27: adaptive: the replica price is the source price when
\* |marketPrice - sourcePrice| / marketPrice <= maxSlippage, and otherwise
\* marketPrice x (1 + maxSlippage/2) for a BUY, marketPrice x (1 - maxSlippage/2)
\* for a SELL; the size is the source's.
AdaptiveReplica ==
  (result.fn = "calculateOrderParams" /\ call.cfg.copyStrategy = "adaptive"
     /\ result.value # ThrowOrder) =>
    LET trade == call.trade
        marketPrice == call.currentMarketPrice
        maxSlippage == call.cfg.maxSlippage
        order == result.value
        within ==
          \/ /\ marketPrice >= trade.price
             /\ 100 * (marketPrice - trade.price) <= maxSlippage * marketPrice
          \/ /\ marketPrice < trade.price
             /\ 100 * (trade.price - marketPrice) <= maxSlippage * marketPrice
    IN /\ order.size = trade.size
       /\ within => order.price = trade.price
       /\ (~within /\ trade.side = "BUY") =>
            200 * order.price = marketPrice * (200 + maxSlippage)
       /\ (~within /\ trade.side = "SELL") =>
            200 * order.price = marketPrice * (200 - maxSlippage)

\* witness of C27: market 0.500, maxSlippage 0.02, a BUY at 0.600 came back at
\* 0.505 with the size unchanged
AdaptiveClamped ==
  /\ result.fn = "calculateOrderParams"
  /\ call.cfg.copyStrategy = "adaptive" /\ call.cfg.maxSlippage = 2
  /\ call.currentMarketPrice = 500
  /\ call.trade.side = "BUY" /\ call.trade.price = 600
  /\ result.value # ThrowOrder
  /\ result.value.price = 505
  /\ result.value.size = call.trade.size

(***************************************************************************)
(* Properties of the router's wallet filter.                               *)
(***************************************************************************)
\* C25: whenever the router forwards a trade, the trade's wallet is registered
\* in the router and not disabled at that moment; so nothing of a wallet is
\* forwarded once it was removed or disabled.
ForwardsOnlyEnabledWallets ==
  [][ \A e \in LogIds :
        forwarded'[e] # forwarded[e] =>
          LET walletAddress == EventWallet(LogOf(e), trackedWallets)
          IN /\ walletAddress \in Wallets
             /\ wmWallets[walletAddress] = "enabled" ]_vars

\* witness of C25: a fill of w1 was forwarded, w1 was disabled afterwards, and
\* a later fill of w1 reached the router from the scanner and was not forwarded
DisabledWalletTradeDropped ==
  /\ wmWallets["w1"] = "disabled"
  /\ forwarded[1] > 0
  /\ delivered[2] > 0
  /\ forwarded[2] = 0

(***************************************************************************)
(* Properties of the metadata cache.                                       *)
(***************************************************************************)
\* the call started by this step
Started == CHOOSE l \in lookups' : l.id = nLookups'

\* C21: a lookup of a token whose metadata was fetched successfully less than
\* the TTL ago asks no collaborator and returns that metadata, whatever other
\* tokens were looked up in between.
FetchedWithinTTLIsServed ==
  [][ nLookups' # nLookups =>
        \A tokenID \in Tokens :
          ( /\ Started.tokenID = tokenID
            /\ marketMetadata[tokenID] # NoMeta
            /\ now - marketMetadata[tokenID].fetched < MARKET_CACHE_TTL )
          => /\ Started.pc = "done"
             /\ Started.orderBook = "none" /\ Started.markets = "none"
             /\ Started.ret = marketMetadata[tokenID] ]_vars

\* C22: the directory is asked only after the order book missed or failed; a
\* lookup that missed or failed on both has returned null, has not thrown and
\* has left the cache as it was; and a lookup of a usable token without an
\* entry asks the order book.
MissOnBothReturnsNull ==
  [][ /\ \A l \in lookups' :
           /\ l.ret # Thrown
           /\ l.markets # "none" => l.orderBook \in {"miss", "throws"}
           /\ (l.orderBook \in {"miss", "throws"} /\ l.markets \in {"miss", "throws"}) =>
                /\ l.pc = "done" /\ l.ret = NullMeta
                /\ l \notin lookups =>
                     /\ marketMetadata' = marketMetadata
                     /\ marketMetadataCacheTime' = marketMetadataCacheTime
      /\ (nLookups' # nLookups /\ Started.tokenID \in Tokens
            /\ marketMetadata[Started.tokenID] = NoMeta) =>
           (Started.pc = "orderBook" /\ Started.orderBook = "asked") ]_vars

\* witness of C22: a lookup whose order-book query failed and whose directory
\* query missed returned null, the token has no entry, and a later lookup of
\* the token asked the order book again
NullThenAskedAgain ==
  \E l1 \in lookups, l2 \in lookups :
    /\ l1.tokenID = l2.tokenID /\ l1.id < l2.id
    /\ l1.orderBook = "throws" /\ l1.markets = "miss"
    /\ l1.pc = "done" /\ l1.ret = NullMeta
    /\ marketMetadata[l1.tokenID] = NoMeta
    /\ l2.orderBook # "none"

(***************************************************************************)
(* Further properties of the CopyTradingEngine.                            *)
(***************************************************************************)
\* C31: no stored position has size <= 0: an executed SELL that covers the
\* position deletes it, and an executed SELL for a token without a position
\* stores none.
NoEmptyPositionStored ==
  [][ /\ \A tok \in Tokens :
           positions'[tok] # NoPosition => positions'[tok].size > 0
      /\ \A t \in trades :
           (Goes(t, "placing", "executed") /\ t.order.side = "SELL") =>
             LET held == positions[t.order.tokenID]
             IN /\ held = NoPosition => positions'[t.order.tokenID] = NoPosition
                /\ (held # NoPosition /\ held.size <= t.order.size) =>
                     positions'[t.order.tokenID] = NoPosition ]_vars

\* witness of C31: under the exact strategy a BUY of 2 and then a SELL of 4
\* of the same token at 0.100 were executed, and no position is stored
OversoldPositionDeleted ==
  /\ config.copyStrategy = "exact"
  /\ dailyStats # NoStats /\ dailyStats.tradesCount = 2
  /\ dailyStats.currentBalance = dailyStats.startingBalance + 200
  /\ \A tok \in Tokens : positions[tok] = NoPosition
  /\ \E t \in trades :
       /\ t.pc = "executed" /\ t.order.side = "SELL"
       /\ t.order.size = 4 /\ t.order.price = 100

\* C32: no lookup is answered from the cache with an entry that was fetched
\* more than the TTL ago, however recently other tokens were fetched.
NoEntryOlderThanTTLServed ==
  [][ nLookups' # nLookups =>
        \A tokenID \in Tokens :
          ( /\ Started.tokenID = tokenID
            /\ marketMetadata[tokenID] # NoMeta
            /\ now - marketMetadata[tokenID].fetched > MARKET_CACHE_TTL )
          => /\ Started.pc = "orderBook"
             /\ Started.orderBook = "asked" ]_vars

(***************************************************************************)
(* Further properties of the OnChainMonitor.                               *)
(***************************************************************************)
\* the scan s finishes the last window of a backfill in this step
BackfillCompletes(s) ==
  /\ s \in scans /\ s.kind = "hist"
  /\ s.pc = "emit" /\ s.queue = <<>>
  /\ s.ci >= Len(monitoringContracts)
  /\ s.from + BatchSize > s.latest
  /\ s \notin scans'

\* C33: when the backfill of [fromBlock .. head-at-start] completes, the
\* cursor is the last block it scanned, and no live scan covers a block of the
\* backfill.
CursorAtHeadAfterBackfill ==
  [][ \A s \in scans :
        BackfillCompletes(s) =>
          /\ lastProcessedBlock' = s.latest
          /\ \A l \in scans' : l.kind = "live" => l.from > s.latest ]_vars

\* the scan n is the scan s after it has dealt with the first event of its
\* queue
ContinuesAfterEvent(n, s) ==
  /\ n.kind = s.kind /\ n.owner = s.owner
  /\ n.from = s.from /\ n.to = s.to /\ n.ci = s.ci
  /\ n.pc = "emit"
  /\ n.queue = Tail(s.queue)

\* C34: whatever happens to one event of a window (its getBlock call may
\* fail), the scan goes on with the remaining events of the window, and an
\* event of a watched wallet that was not handed to the observers was reported
\* to the error observers.
GetBlockFailureContained ==
  [][ \A s \in scans :
        (s.pc = "emit" /\ s.queue # <<>> /\ s \notin scans') =>
          /\ \E n \in scans' : ContinuesAfterEvent(n, s)
          /\ \A n \in scans' :
               ( /\ ContinuesAfterEvent(n, s)
                 /\ n.sent = s.sent
                 /\ EventWallet(LogOf(Head(s.queue)), trackedWallets) # "none" )
               => errorCalls' > errorCalls ]_vars

\* C35: a detected trade carrying the price 0 (price not known) never has an
\* order submitted to the OrderService, under any strategy.
ZeroPriceNeverSubmitted ==
  \A t \in trades :
    t.trade.price = 0 => (t.subs = 0 /\ t.pc \notin {"placing", "executed", "failed"})

\* C36: a trade passes evaluate() only if its market is not on the blacklist
\* and, when a whitelist is configured, is on the whitelist.
PassedTradeIsListed ==
  [][ \A t \in trades :
        Goes(t, "evaluate", "size") =>
          LET conditionId == MarketOf(t.trade.tokenID)
              filters == config.filters
          IN /\ conditionId \notin filters.blacklistMarkets
             /\ filters.whitelistMarkets.configured =>
                  conditionId \in filters.whitelistMarkets.markets ]_vars

\* C37: only the percentage strategy depends on the balance.  Under
\* percentage the replica is null without a positive balance and otherwise has
\* the source price and size = balance x percentageOfBalance / source price;
\* under exact, scaled and adaptive the result without a positive balance is
\* the one with a positive balance, so never null for want of a balance.
OnlyPercentageNeedsBalance ==
  (result.fn = "calculateCopyOrder") =>
    LET trade == call.trade
        cfg == call.cfg
        order == result.value
    IN /\ (cfg.copyStrategy = "percentage" /\ call.balance <= 0) => order = NullOrder
       /\ ( /\ cfg.copyStrategy = "percentage" /\ call.balance > 0
            /\ order # NullOrder /\ order # ThrowOrder ) =>
            /\ order.price = trade.price
            /\ order.size * trade.price * cfg.pctDen = call.balance * cfg.pctNum
       /\ (cfg.copyStrategy # "percentage" /\ call.balance <= 0) =>
            order = calculateCopyOrder(trade, cfg, 1600, call.marketPrice, call.positions)

RouterAndScannerTrackTheSame ==
  {w \in Wallets : wmWallets[w] # "absent"} = trackedWallets

\* C40: once the user has called disconnect(), no new socket is created
\* until the user calls connect() again, also when a reconnect timer was
\* pending at the disconnect; and a reconnect timer is armed only while fewer
\* than maxReconnectAttempts attempts were made since the last successful
\* connection, each one counting as an attempt.
NoReconnectAfterDisconnect ==
  [][ /\ (userCall = "disconnect" /\ userCall' = "disconnect") => nSockets' = nSockets
      /\ reconnectTimers' > reconnectTimers =>
           /\ reconnectAttempts < maxReconnectAttempts
           /\ reconnectAttempts' = reconnectAttempts + 1
      /\ reconnectAttempts' <= maxReconnectAttempts ]_vars

====
